---- MODULE Spec2Model ----
(***************************************************************************)
(* Flow-conservation engine of the 2d_flows editor                         *)
(* (src/src/components/FlowCanvas.tsx).                                    *)
(*                                                                         *)
(* Flow values are JavaScript numbers.  They are modelled as exact         *)
(* fractions <<n, d>> with d > 0 in lowest terms, extended with the IEEE   *)
(* special values the code can produce: <<1, 0>> = Infinity,               *)
(* <<-1, 0>> = -Infinity and <<0, 0>> = NaN.  Positions are kept in ticks  *)
(* of 0.1 % (position * 10), which is the grid every stored position is    *)
(* snapped to.                                                             *)
(***************************************************************************)
EXTENDS Integers, Sequences, FiniteSets

(***************************************************************************)
(* Bounds of the model.                                                    *)
(***************************************************************************)
MaxStages == 4
    \* stages that may exist at once
MaxCreations == 3
    \* flows (with or without a new stage) that may be created
MaxEdits == 1
    \* flow-edit forms that may be opened
MaxHistory == 5
    \* entries the undo history may hold where it is kept
MaxDrags == 1
\* ticks by which the positions given to snapToTicker pass the canvas range
MaxOvershoot == 5
    \* marker drags that may be made

(***************************************************************************)
(* Number arithmetic.                                                      *)
(***************************************************************************)
NaN == <<0, 0>>
PosInf == <<1, 0>>
NegInf == <<-1, 0>>

IsNaN(x) == x = NaN
IsInf(x) == x[2] = 0 /\ x[1] # 0
IsFinite(x) == x[2] # 0

Abs(i) == IF i < 0 THEN -i ELSE i
Sign(i) == IF i < 0 THEN -1 ELSE IF i > 0 THEN 1 ELSE 0

RECURSIVE Gcd(_, _)
Gcd(a, b) == IF b = 0 THEN a ELSE Gcd(b, a % b)

\* the fraction n/d (d # 0) in lowest terms with a positive denominator
Norm(n, d) ==
    LET g == Gcd(Abs(n), Abs(d))
        s == IF d < 0 THEN -1 ELSE 1
    IN  <<(s * n) \div g, (s * d) \div g>>

Num(i) == <<i, 1>>
Frac(n, d) == Norm(n, d)

\* a + b
RAdd(a, b) ==
    IF IsNaN(a) \/ IsNaN(b) THEN NaN
    ELSE IF IsInf(a) THEN (IF IsInf(b) /\ b # a THEN NaN ELSE a)
    ELSE IF IsInf(b) THEN b
    ELSE Norm(a[1] * b[2] + b[1] * a[2], a[2] * b[2])

RNeg(a) == <<-a[1], a[2]>>

\* a - b
RSub(a, b) == RAdd(a, RNeg(b))

\* a * b
RMul(a, b) ==
    IF IsNaN(a) \/ IsNaN(b) THEN NaN
    ELSE IF IsInf(a) \/ IsInf(b)
         THEN (IF a[1] = 0 \/ b[1] = 0 THEN NaN ELSE <<Sign(a[1]) * Sign(b[1]), 0>>)
    ELSE Norm(a[1] * b[1], a[2] * b[2])

\* a / b with the IEEE results for a zero or infinite divisor
RDiv(a, b) ==
    IF IsNaN(a) \/ IsNaN(b) THEN NaN
    ELSE IF IsInf(b) THEN (IF IsInf(a) THEN NaN ELSE Num(0))
    ELSE IF IsInf(a) THEN <<Sign(a[1]) * (IF b[1] < 0 THEN -1 ELSE 1), 0>>
    ELSE IF b[1] = 0 THEN (IF a[1] = 0 THEN NaN ELSE <<Sign(a[1]), 0>>)
    ELSE Norm(a[1] * b[2], a[2] * b[1])

\* a < b; every comparison with NaN is false
RLt(a, b) ==
    IF IsNaN(a) \/ IsNaN(b) THEN FALSE
    ELSE IF IsInf(a) \/ IsInf(b)
         THEN (IF a = b THEN FALSE
               ELSE IF a = NegInf \/ b = PosInf THEN TRUE ELSE FALSE)
    ELSE a[1] * b[2] < b[1] * a[2]

RGt(a, b) == RLt(b, a)
RLe(a, b) == ~IsNaN(a) /\ ~IsNaN(b) /\ ~RLt(b, a)
RGe(a, b) == RLe(b, a)

\* Math.max / Math.min / Math.abs: NaN if an argument is NaN
RMax(a, b) == IF IsNaN(a) \/ IsNaN(b) THEN NaN ELSE IF RLt(a, b) THEN b ELSE a
RMin(a, b) == IF IsNaN(a) \/ IsNaN(b) THEN NaN ELSE IF RLt(b, a) THEN b ELSE a
RAbs(a) == <<Abs(a[1]), a[2]>>

\* Math.floor and Math.round (half up) of a finite number, as an integer
RFloor(a) == a[1] \div a[2]
RRound(a) == (2 * a[1] + a[2]) \div (2 * a[2])

(***************************************************************************)
(* Program constants (positions in ticks of 0.1 %).                        *)
(***************************************************************************)
CANVAS_MIN_POSITION == -100
CANVAS_MAX_POSITION == 1100
CANVAS_RANGE == CANVAS_MAX_POSITION - CANVAS_MIN_POSITION
\* canvasWidth = containerWidth * 10, here for a container of 1264 px
canvasWidth == 12000
\* the view is left at its initial zoom
zoom == 1
EPSILON_X == 1
\* the conservation tolerance 0.01 and the minimum value 0.01
Epsilon == Frac(1, 100)
MinimumValue == Frac(1, 100)
RootIncoming == Num(100)

(***************************************************************************)
(* State.                                                                  *)
(*   stages, flows     the graph, as the arrays the App component holds    *)
(*   selectedStageId   branch source, 0 for null                           *)
(*   isCreatingBranch                                                      *)
(*   selectedFlowId    0 for null                                          *)
(*   editingFlow       <<>> for null, else <<copy of the flow whose value  *)
(*                     is the percentage shown in the edit form>>          *)
(*   editingStage      <<>> for null, else <<copy of the stage>>           *)
(*   clock             stand-in for Date.now(), the source of new ids      *)
(*   creationsLeft     creations the model still allows                    *)
(*   edits             number of flow-edit forms opened so far             *)
(*   lastOp            the handler that ran last and its arguments         *)
(*                     (history variable, not program state)               *)
(***************************************************************************)
VARIABLES stages, flows, selectedStageId, isCreatingBranch, selectedFlowId,
          editingFlow, editingStage, clock, creationsLeft, edits, lastOp,
          historyRef, historyIndexRef, canUndo, changes, undos, drags, input,
          output

vars == <<stages, flows, selectedStageId, isCreatingBranch, selectedFlowId,
          editingFlow, editingStage, clock, creationsLeft, edits,
          lastOp, historyRef, historyIndexRef, canUndo, changes, undos,
          drags, input, output>>

\* App's undo history, and the record of what was changed and undone
app == <<historyRef, historyIndexRef, canUndo, changes, undos>>

\* input and output hold the argument and the value of a function of the
\* component that is applied on its own (both <<>> in the editor)

Range(s) == {s[i] : i \in DOMAIN s}

\* array.map(flow => flow.fromStageId === stageId ? {...flow, value: v} : flow)
SetValueFrom(fl, stageId, v) ==
    [i \in DOMAIN fl |->
        IF fl[i].fromStageId = stageId THEN [fl[i] EXCEPT !.value = v] ELSE fl[i]]

\* array.reduce((sum, f) => sum + f.value, 0): adds left to right from 0
RECURSIVE SumValuesAcc(_, _, _)
SumValuesAcc(fl, i, acc) ==
    IF i > Len(fl) THEN acc
    ELSE SumValuesAcc(fl, i + 1, RAdd(acc, fl[i].value))

SumValues(fl) == SumValuesAcc(fl, 1, Num(0))

OutgoingFlows(stageId, fl) == SelectSeq(fl, LAMBDA f : f.fromStageId = stageId)
IncomingFlows(stageId, fl) == SelectSeq(fl, LAMBDA f : f.toStageId = stageId)

\* getIncomingFlowValue with the default taken for a sum of 0 as well
\* (sum || 100)
getIncomingFlowValue_DefaultForZero(stageId, flowsToUse) ==
    LET incomingFlows == IncomingFlows(stageId, flowsToUse)
    IN  IF Len(incomingFlows) = 0 \/ SumValues(incomingFlows) = Num(0)
        THEN RootIncoming
        ELSE SumValues(incomingFlows)

\* getIncomingFlowValue
getIncomingFlowValue(stageId, flowsToUse) ==
    LET incomingFlows == IncomingFlows(stageId, flowsToUse)
    IN  IF Len(incomingFlows) = 0 THEN RootIncoming
        ELSE SumValues(incomingFlows)

(***************************************************************************)
(* Engine functions.                                                       *)
(***************************************************************************)

\* createFlowWithProportionalSplit: getIncomingFlowValue is called without a
\* flow list and so reads the component's current flows.
createFlowWithProportionalSplit(fromStageId, toStageId, existingFlows, newId) ==
    LET incomingValue == getIncomingFlowValue(fromStageId, flows)
        existingOutgoingFlows == OutgoingFlows(fromStageId, existingFlows)
        numberOfChildren == Len(existingOutgoingFlows) + 1
        proportionalValue == RDiv(incomingValue, Num(numberOfChildren))
        updatedFlows ==
            SetValueFrom(existingFlows, fromStageId, proportionalValue)
        newFlow == [id |-> newId,
                    fromStageId |-> fromStageId,
                    toStageId |-> toStageId,
                    value |-> proportionalValue,
                    branchIndex |-> Len(existingOutgoingFlows)]
    IN  Append(updatedFlows, newFlow)

\* Math.abs(currentOutgoingSum - incomingValue) > 0.01 in double precision.
\* The model's values are exact; the comparison is decided by them unless
\* the exact difference is 0.01, where the rounding of the operands decides.
\* When one operand is X and the other is the sum X + 0.01 of two flow
\* values, the rounded difference is 0.01 rounded to the spacing of the
\* doubles around X: above 0.01 for X in [1, 2), [16, 32) and [64, 128)
\* ((100 + 0.01) - 100 = 0.010000000000005116), below it for X in [2, 16),
\* [32, 64) and [128, 512) ((50 + 0.01) - 50 = 0.00999999999999801).  In
\* every other case at the threshold the outcome is left open: roundsUp.
IsSingleAddition(values, X) ==
    /\ Len(values) = 2
    /\ \E i \in {1, 2} : values[i].value = MinimumValue /\ values[3 - i].value = X

InBand(X, lo, hi) == RGe(X, Num(lo)) /\ RLt(X, RSub(Num(hi), Frac(2, 100)))

ExceedsAtThreshold(X, roundsUp) ==
    IF InBand(X, 1, 2) \/ InBand(X, 16, 32) \/ InBand(X, 64, 128) THEN TRUE
    ELSE IF InBand(X, 2, 16) \/ InBand(X, 32, 64) \/ InBand(X, 128, 512) THEN FALSE
    ELSE roundsUp

Unbalanced(outgoingFlows, incomingFlows, incomingValue, roundsUp) ==
    LET currentOutgoingSum == SumValues(outgoingFlows)
        diff == RAbs(RSub(currentOutgoingSum, incomingValue))
    IN  IF diff # Epsilon THEN RGt(diff, Epsilon)
        ELSE IF IsSingleAddition(outgoingFlows, incomingValue)
        THEN ExceedsAtThreshold(incomingValue, roundsUp)
        ELSE IF Len(outgoingFlows) = 1
                /\ IsSingleAddition(incomingFlows, currentOutgoingSum)
        THEN ExceedsAtThreshold(currentOutgoingSum, roundsUp)
        ELSE roundsUp

\* the body of balanceFlows' stages.forEach for one stage
BalanceStage(stageId, updatedFlows, roundsUp) ==
    LET incomingValue == getIncomingFlowValue(stageId, updatedFlows)
        outgoingFlows == OutgoingFlows(stageId, updatedFlows)
    IN  IF Len(outgoingFlows) > 0
           /\ Unbalanced(outgoingFlows, IncomingFlows(stageId, updatedFlows),
                         incomingValue, roundsUp)
        THEN SetValueFrom(updatedFlows, stageId,
                          RDiv(incomingValue, Num(Len(outgoingFlows))))
        ELSE updatedFlows

RECURSIVE BalanceFrom(_, _, _, _)
BalanceFrom(stageList, i, updatedFlows, roundsUp) ==
    IF i > Len(stageList) THEN updatedFlows
    ELSE BalanceFrom(stageList, i + 1,
                     BalanceStage(stageList[i].id, updatedFlows, roundsUp), roundsUp)

\* balanceFlows over a given stage array: one pass in array order
balanceFlowsOver(stageList, flowsToBalance, roundsUp) ==
    BalanceFrom(stageList, 1, flowsToBalance, roundsUp)

\* balanceFlows: the stage array is the component's current one
balanceFlows(flowsToBalance, roundsUp) ==
    balanceFlowsOver(stages, flowsToBalance, roundsUp)

\* the redistribution among the other flows of the source, first pass
\* (handleFlowUpdate lines 394-424)
RedistributeFirst(updatedFlows, ef, sourceStageId, incomingValue, clampedFlowValue) ==
    LET outgoingFlows == OutgoingFlows(sourceStageId, updatedFlows)
        otherFlows == SelectSeq(outgoingFlows, LAMBDA f : f.id # ef.id)
        otherFlowsSum == SumValues(otherFlows)
        remainingValue == RMax(Num(0), RSub(incomingValue, clampedFlowValue))
        scaleFactor == RDiv(remainingValue, otherFlowsSum)
        IsOther(f) == f.fromStageId = sourceStageId /\ f.id # ef.id
    IN  IF Len(outgoingFlows) > 1
        THEN IF Len(otherFlows) > 0 /\ RGt(remainingValue, Num(0))
             THEN [i \in DOMAIN updatedFlows |->
                      IF IsOther(updatedFlows[i])
                      THEN [updatedFlows[i] EXCEPT
                               !.value = RMul(updatedFlows[i].value, scaleFactor)]
                      ELSE updatedFlows[i]]
             ELSE IF Len(otherFlows) > 0 /\ RLe(remainingValue, Num(0))
             THEN [i \in DOMAIN updatedFlows |->
                      IF IsOther(updatedFlows[i])
                      THEN [updatedFlows[i] EXCEPT !.value = MinimumValue]
                      ELSE updatedFlows[i]]
             ELSE updatedFlows
        ELSE updatedFlows

\* the redistribution after the edited value was re-applied, second pass
\* (handleFlowUpdate lines 432-451)
RedistributeFinal(updatedFlows, ef, clampedFlowValue) ==
    LET finalSourceStageId == ef.fromStageId
        finalIncomingValue == getIncomingFlowValue(finalSourceStageId, updatedFlows)
        finalOutgoingFlows == OutgoingFlows(finalSourceStageId, updatedFlows)
        finalOtherFlows == SelectSeq(finalOutgoingFlows, LAMBDA f : f.id # ef.id)
        finalOtherFlowsSum == SumValues(finalOtherFlows)
        finalRemainingValue ==
            RMax(Num(0), RSub(finalIncomingValue, clampedFlowValue))
        finalScaleFactor == RDiv(finalRemainingValue, finalOtherFlowsSum)
        IsOther(f) == f.fromStageId = finalSourceStageId /\ f.id # ef.id
    IN  IF Len(finalOutgoingFlows) > 1
           /\ Len(finalOtherFlows) > 0
           /\ RGt(finalRemainingValue, Num(0))
           /\ RGt(finalOtherFlowsSum, Num(0))
        THEN [i \in DOMAIN updatedFlows |->
                 IF IsOther(updatedFlows[i])
                 THEN [updatedFlows[i] EXCEPT
                          !.value = RMul(updatedFlows[i].value, finalScaleFactor)]
                 ELSE updatedFlows[i]]
        ELSE updatedFlows

\* Math.max(0, Math.min(actualFlowValue, incomingValue)) of the percentage
ClampedFlowValue(percent, incomingValue) ==
    LET actualFlowValue == RMul(RDiv(percent, Num(100)), incomingValue)
    IN  RMax(Num(0), RMin(actualFlowValue, incomingValue))

\* flows.map(f => f.id === editingFlow.id ? flowWithActualValue : f): the
\* whole record is replaced by the copy held in editingFlow
ReplaceById(fl, flowWithActualValue) ==
    [i \in DOMAIN fl |->
        IF fl[i].id = flowWithActualValue.id THEN flowWithActualValue ELSE fl[i]]

\* handleFlowUpdate without lines 424-426: the edited flow is not written
\* back after the balancing pass
FlowUpdateResult_NoReapply(ef, roundsUp) ==
    LET sourceStageId == ef.fromStageId
        incomingValue == getIncomingFlowValue(sourceStageId, flows)
        clampedFlowValue == ClampedFlowValue(ef.value, incomingValue)
        flowWithActualValue == [ef EXCEPT !.value = clampedFlowValue]
        first == RedistributeFirst(ReplaceById(flows, flowWithActualValue), ef,
                                   sourceStageId, incomingValue, clampedFlowValue)
        balanced == balanceFlows(first, roundsUp)
    IN  RedistributeFinal(balanced, ef, clampedFlowValue)

\* the flow array handleFlowUpdate hands to onFlowsChange
FlowUpdateResult(ef, roundsUp) ==
    LET sourceStageId == ef.fromStageId
        incomingValue == getIncomingFlowValue(sourceStageId, flows)
        clampedFlowValue == ClampedFlowValue(ef.value, incomingValue)
        flowWithActualValue == [ef EXCEPT !.value = clampedFlowValue]
        first == RedistributeFirst(ReplaceById(flows, flowWithActualValue), ef,
                                   sourceStageId, incomingValue, clampedFlowValue)
        balanced == balanceFlows(first, roundsUp)
        reapplied == ReplaceById(balanced, flowWithActualValue)
    IN  RedistributeFinal(reapplied, ef, clampedFlowValue)

\* recalculateSiblingFlowValues.  The recursion follows every outgoing flow;
\* on a cycle it never returns and the call stack overflows (RangeError).
\* A path longer than the number of flows passes some flow twice, so the
\* model reports the overflow there: [ok |-> FALSE].
\* the loop of lines 664-666 left out: only the parent's own flows are set
RecalculateChildren_NoDescent(siblingFlows, i, updatedFlows, depth) ==
    [ok |-> TRUE, flows |-> updatedFlows]

RECURSIVE recalculateSiblingFlowValuesAt(_, _, _)
RECURSIVE RecalculateChildren(_, _, _, _)
recalculateSiblingFlowValuesAt(parentStageId, remainingFlows, depth) ==
    LET siblingFlows == OutgoingFlows(parentStageId, remainingFlows)
        incomingValue == getIncomingFlowValue(parentStageId, remainingFlows)
        proportionalValue == RDiv(incomingValue, Num(Len(siblingFlows)))
        updatedFlows ==
            SetValueFrom(remainingFlows, parentStageId, proportionalValue)
    IN  IF depth > Len(remainingFlows) + 1
        THEN [ok |-> FALSE, flows |-> remainingFlows]
        ELSE IF Len(siblingFlows) = 0
        THEN [ok |-> TRUE, flows |-> remainingFlows]
        ELSE RecalculateChildren(siblingFlows, 1, updatedFlows, depth)

RecalculateChildren(siblingFlows, i, updatedFlows, depth) ==
    IF i > Len(siblingFlows) THEN [ok |-> TRUE, flows |-> updatedFlows]
    ELSE LET r == recalculateSiblingFlowValuesAt(siblingFlows[i].toStageId,
                                                 updatedFlows, depth + 1)
         IN  IF r.ok
             THEN RecalculateChildren(siblingFlows, i + 1, r.flows, depth)
             ELSE r

\* no recalculation: the flows are returned as they were given
recalculateSiblingFlowValues_Unchanged(parentStageId, remainingFlows) ==
    [ok |-> TRUE, flows |-> remainingFlows]

recalculateSiblingFlowValues(parentStageId, remainingFlows) ==
    recalculateSiblingFlowValuesAt(parentStageId, remainingFlows, 1)

(***************************************************************************)
(* Coordinate mapping (pixels are integers, positions are ticks).          *)
(***************************************************************************)

\* getStageX
getStageX(position) ==
    RMul(Frac(position - CANVAS_MIN_POSITION, CANVAS_RANGE), Num(canvasWidth))

\* getPositionFromX: a number of ticks, not yet snapped
getPositionFromX(x) ==
    LET normalizedX == Frac(x, canvasWidth)
        position == RAdd(RMul(normalizedX, Num(CANVAS_RANGE)), Num(CANVAS_MIN_POSITION))
    IN  RMax(Num(CANVAS_MIN_POSITION), RMin(Num(CANVAS_MAX_POSITION), position))

\* a variant that cuts the position off at the ticker below it
snapToTicker_Truncating(position) ==
    LET tickerPosition == RFloor(position)
    IN  IF tickerPosition < CANVAS_MIN_POSITION THEN CANVAS_MIN_POSITION
        ELSE IF tickerPosition > CANVAS_MAX_POSITION THEN CANVAS_MAX_POSITION
        ELSE tickerPosition

\* snapToTicker: Math.round(position * 10) / 10, clamped; the result in ticks
snapToTicker(position) ==
    LET tickerPosition == RRound(position)
    IN  IF tickerPosition < CANVAS_MIN_POSITION THEN CANVAS_MIN_POSITION
        ELSE IF tickerPosition > CANVAS_MAX_POSITION THEN CANVAS_MAX_POSITION
        ELSE tickerPosition

\* the remainder operator of JavaScript: the sign of the dividend
JsRem(a, b) == IF a < 0 THEN -((-a) % b) ELSE a % b

\* a variant whose loop stops before the last ticker
getTickerPositions_ExclusiveEnd ==
    [k \in 1..(CANVAS_MAX_POSITION - CANVAS_MIN_POSITION) |->
        LET i == CANVAS_MIN_POSITION + k - 1
        IN  [position |-> Frac(i, 10), isMajor |-> JsRem(i, 10) = 0]]

\* getTickerPositions: the loop over i = -100 .. 1100 pushes one ticker per
\* i; position = i / 10 is in percent here, a normalised fraction
getTickerPositions ==
    [k \in 1..(CANVAS_MAX_POSITION - CANVAS_MIN_POSITION + 1) |->
        LET i == CANVAS_MIN_POSITION + k - 1
        IN  [position |-> Frac(i, 10), isMajor |-> JsRem(i, 10) = 0]]

(***************************************************************************)
(* Inputs.                                                                 *)
(***************************************************************************)
\* x coordinates of canvas clicks, in pixels of the unzoomed canvas
ClickXs == {1104, 1200, 1296}
\* horizontal mouse movements of a marker drag, in pixels
DragDeltas == {-60, 150}
\* percentages typed into the flow-edit form
Percents == {Num(-10), Num(80), Num(100), Num(150)}

NoOp == [op |-> "ui", stage |-> 0, flow |-> 0]
Op(name, stageId, flowId) == [op |-> name, stage |-> stageId, flow |-> flowId]

StageIds == {s.id : s \in Range(stages)}
StageById(id) == CHOOSE s \in Range(stages) : s.id = id
FlowIds == {f.id : f \in Range(flows)}
\* flows.find(f => f.id === id): the first match in array order
FlowById(id) == flows[CHOOSE i \in DOMAIN flows :
                        /\ flows[i].id = id
                        /\ \A j \in 1..(i - 1) : flows[j].id # id]

(***************************************************************************)
(* Initial state: App's useState defaults.                                 *)
(***************************************************************************)
Init ==
    /\ stages = <<[id |-> 1, position |-> 0]>>
    /\ flows = <<>>
    /\ selectedStageId = 0
    /\ isCreatingBranch = FALSE
    /\ selectedFlowId = 0
    /\ editingFlow = <<>>
    /\ editingStage = <<>>
    /\ clock = 2
    /\ creationsLeft = MaxCreations
    /\ edits = 0
    /\ lastOp = NoOp
    /\ historyRef = <<[stages |-> stages, flows |-> flows]>>
    /\ historyIndexRef = 0
    /\ changes = <<[stages |-> stages, flows |-> flows]>>
    /\ undos = 0
    /\ canUndo = FALSE
    /\ drags = 0
    /\ input = <<>>
    /\ output = <<>>

(***************************************************************************)
(* Handlers.  onStagesChange / onFlowsChange are App's setters: they       *)
(* replace the stage array / the flow array.                               *)
(***************************************************************************)

\* a variant that clears the selection only when it has created a flow
handleStageClick_KeepsSelection(stage) ==
    /\ stage \in Range(stages)
    /\ selectedFlowId' = 0
    /\ editingFlow' = <<>>
    /\ UNCHANGED <<stages, edits>>
    /\ IF editingStage # <<>> /\ editingStage[1].id = stage.id
       THEN \* already editing this stage: close the modal
            /\ editingStage' = <<>>
            /\ lastOp' = NoOp
            /\ UNCHANGED <<flows, selectedStageId, isCreatingBranch, clock, creationsLeft>>
       ELSE IF selectedStageId # 0 /\ selectedStageId # stage.id
       THEN /\ IF /\ selectedStageId \in StageIds
                  /\ stage.position > StageById(selectedStageId).position
               THEN /\ creationsLeft > 0
                    /\ \E roundsUp \in BOOLEAN :
                          flows' = balanceFlows(
                              createFlowWithProportionalSplit(
                                  selectedStageId, stage.id, flows, clock),
                              roundsUp)
                    /\ clock' = clock + 1
                    /\ creationsLeft' = creationsLeft - 1
                    /\ lastOp' = Op("branchCreate", selectedStageId, clock)
                    /\ isCreatingBranch' = FALSE
                    /\ selectedStageId' = 0
               ELSE /\ lastOp' = NoOp
                    /\ UNCHANGED <<flows, clock, creationsLeft>>
                    /\ UNCHANGED <<isCreatingBranch, selectedStageId>>
            /\ UNCHANGED editingStage
       ELSE IF selectedStageId = 0
       THEN /\ editingStage' = <<stage>>
            /\ lastOp' = NoOp
            /\ UNCHANGED <<flows, selectedStageId, isCreatingBranch, clock, creationsLeft>>
       ELSE /\ lastOp' = NoOp
            /\ UNCHANGED <<flows, selectedStageId, isCreatingBranch, clock, creationsLeft,
                           editingStage>>

\* handleStageClick (a click on a stage marker or its label)
handleStageClick(stage) ==
    /\ stage \in Range(stages)
    /\ selectedFlowId' = 0
    /\ editingFlow' = <<>>
    /\ UNCHANGED <<stages, edits>>
    /\ IF editingStage # <<>> /\ editingStage[1].id = stage.id
       THEN \* already editing this stage: close the modal
            /\ editingStage' = <<>>
            /\ lastOp' = NoOp
            /\ UNCHANGED <<flows, selectedStageId, isCreatingBranch, clock, creationsLeft>>
       ELSE IF selectedStageId # 0 /\ selectedStageId # stage.id
       THEN /\ IF /\ selectedStageId \in StageIds
                  /\ stage.position > StageById(selectedStageId).position
               THEN /\ creationsLeft > 0
                    /\ \E roundsUp \in BOOLEAN :
                          flows' = balanceFlows(
                              createFlowWithProportionalSplit(
                                  selectedStageId, stage.id, flows, clock),
                              roundsUp)
                    /\ clock' = clock + 1
                    /\ creationsLeft' = creationsLeft - 1
                    /\ lastOp' = Op("branchCreate", selectedStageId, clock)
               ELSE /\ lastOp' = NoOp
                    /\ UNCHANGED <<flows, clock, creationsLeft>>
            /\ isCreatingBranch' = FALSE
            /\ selectedStageId' = 0
            /\ UNCHANGED editingStage
       ELSE IF selectedStageId = 0
       THEN /\ editingStage' = <<stage>>
            /\ lastOp' = NoOp
            /\ UNCHANGED <<flows, selectedStageId, isCreatingBranch, clock, creationsLeft>>
       ELSE /\ lastOp' = NoOp
            /\ UNCHANGED <<flows, selectedStageId, isCreatingBranch, clock, creationsLeft,
                           editingStage>>

\* the stage-edit modal is rendered only for a stage that still exists
StageModalVisible ==
    /\ editingStage # <<>>
    /\ editingStage[1].id \in StageIds

\* the "Create branch" and "Link to another marker" buttons of the stage modal
createBranchClick ==
    /\ StageModalVisible
    /\ selectedStageId' = editingStage[1].id
    /\ isCreatingBranch' = TRUE
    /\ editingStage' = <<>>
    /\ lastOp' = NoOp
    /\ UNCHANGED <<stages, flows, selectedFlowId, editingFlow, clock, creationsLeft, edits>>

\* the Cancel button and the Escape key of the stage modal
stageModalCancel ==
    /\ StageModalVisible
    /\ editingStage' = <<>>
    /\ lastOp' = NoOp
    /\ UNCHANGED <<stages, flows, selectedStageId, isCreatingBranch,
                   selectedFlowId, editingFlow, clock, creationsLeft, edits>>

\* handleStageModalUpdate: writes the edited copy over the stage
handleStageModalUpdate ==
    /\ StageModalVisible
    /\ stages' = [i \in DOMAIN stages |->
                     IF stages[i].id = editingStage[1].id THEN editingStage[1]
                     ELSE stages[i]]
    /\ editingStage' = <<>>
    /\ lastOp' = NoOp
    /\ UNCHANGED <<flows, selectedStageId, isCreatingBranch, selectedFlowId,
                   editingFlow, clock, creationsLeft, edits>>

\* the position a canvas click at clickX creates a stage at, or
\* CANVAS_MIN_POSITION - 1 when the click creates nothing
\* (handleCanvasClick lines 549-590)
NoPosition == CANVAS_MIN_POSITION - 1

\* lines 549-590 without the comparisons with the source marker
ClickPosition_AnyPosition(fromStage, clickX) ==
    snapToTicker(getPositionFromX(clickX))

ClickPosition(fromStage, clickX) ==
    LET fromStageX == getStageX(fromStage.position)
        limitX == RAdd(fromStageX, Num(EPSILON_X))
        snapped == snapToTicker(getPositionFromX(clickX))
        nextTicker == fromStage.position + 1
        fallback == IF nextTicker < CANVAS_MAX_POSITION THEN nextTicker
                    ELSE CANVAS_MAX_POSITION
        newPosition == IF RLe(getStageX(snapped), limitX) THEN fallback ELSE snapped
        distanceToSource == RAbs(RSub(Num(clickX), fromStageX))
    IN  IF RLe(Num(clickX), limitX) THEN NoPosition
        ELSE IF RLe(getStageX(newPosition), limitX) THEN NoPosition
        ELSE IF RLt(distanceToSource, Frac(10, zoom)) THEN NoPosition
        ELSE newPosition

\* handleCanvasClick
handleCanvasClick(clickX) ==
    /\ IF selectedFlowId # 0
       THEN selectedFlowId' = 0 /\ editingFlow' = <<>>
       ELSE UNCHANGED <<selectedFlowId, editingFlow>>
    /\ editingStage' = <<>>
    /\ UNCHANGED edits
    /\ IF ~isCreatingBranch \/ selectedStageId = 0 \/ selectedStageId \notin StageIds
       THEN /\ lastOp' = NoOp
            /\ UNCHANGED <<stages, flows, selectedStageId, isCreatingBranch, clock, creationsLeft>>
       ELSE LET newPosition == ClickPosition(StageById(selectedStageId), clickX)
                newStage == [id |-> clock, position |-> newPosition]
            IN  IF newPosition = NoPosition
                THEN /\ lastOp' = NoOp
                     /\ UNCHANGED <<stages, flows, selectedStageId,
                                    isCreatingBranch, clock, creationsLeft>>
                ELSE /\ creationsLeft > 0
                     /\ Len(stages) < MaxStages
                     /\ \E roundsUp \in BOOLEAN :
                           flows' = balanceFlows(
                               createFlowWithProportionalSplit(
                                   selectedStageId, newStage.id, flows, clock),
                               roundsUp)
                     /\ stages' = Append(stages, newStage)
                     /\ clock' = clock + 1
                     /\ creationsLeft' = creationsLeft - 1
                     /\ isCreatingBranch' = FALSE
                     /\ selectedStageId' = 0
                     /\ lastOp' = Op("branchCreate", selectedStageId, clock)

\* a flow is drawn, and so can be clicked, when both its stages exist; the
\* flow being edited takes no pointer events
FlowClickable(f) ==
    /\ f.fromStageId \in StageIds
    /\ f.toStageId \in StageIds
    /\ ~(selectedFlowId = f.id /\ editingFlow # <<>> /\ editingFlow[1].id = f.id)

\* a variant that clears the selected stage and leaves isCreatingBranch
handleFlowClick_KeepsBranchMode(flowId) ==
    /\ flowId \in FlowIds
    /\ FlowClickable(FlowById(flowId))
    /\ edits < MaxEdits
    /\ LET flow == FlowById(flowId)
           parentIncomingValue == getIncomingFlowValue(flow.fromStageId, flows)
           percentageValue ==
               IF RGt(parentIncomingValue, Num(0))
               THEN RMul(RDiv(flow.value, parentIncomingValue), Num(100))
               ELSE Num(0)
       IN  /\ selectedFlowId' = flowId
           /\ editingFlow' = <<[flow EXCEPT !.value = percentageValue]>>
    /\ selectedStageId' = 0
    /\ edits' = edits + 1
    /\ lastOp' = Op("flowClick", 0, flowId)
    /\ UNCHANGED <<stages, flows, isCreatingBranch, editingStage, clock,
                   creationsLeft>>

\* handleFlowClick
handleFlowClick(flowId) ==
    /\ flowId \in FlowIds
    /\ FlowClickable(FlowById(flowId))
    /\ edits < MaxEdits
    /\ LET flow == FlowById(flowId)
           parentIncomingValue == getIncomingFlowValue(flow.fromStageId, flows)
           percentageValue ==
               IF RGt(parentIncomingValue, Num(0))
               THEN RMul(RDiv(flow.value, parentIncomingValue), Num(100))
               ELSE Num(0)
       IN  /\ selectedFlowId' = flowId
           /\ editingFlow' = <<[flow EXCEPT !.value = percentageValue]>>
    /\ selectedStageId' = 0
    /\ isCreatingBranch' = FALSE
    /\ edits' = edits + 1
    /\ lastOp' = Op("flowClick", 0, flowId)
    /\ UNCHANGED <<stages, flows, editingStage, clock, creationsLeft>>

\* the flow-edit form is rendered for the selected flow while both its
\* stages exist
FlowModalVisible ==
    /\ editingFlow # <<>>
    /\ \E f \in Range(flows) :
          /\ f.id = selectedFlowId
          /\ f.fromStageId \in StageIds
          /\ f.toStageId \in StageIds

\* onChange of the form's number input
flowValueChange(percent) ==
    /\ FlowModalVisible
    /\ editingFlow' = <<[editingFlow[1] EXCEPT !.value = percent]>>
    /\ lastOp' = NoOp
    /\ UNCHANGED <<stages, flows, selectedStageId, isCreatingBranch,
                   selectedFlowId, editingStage, clock, creationsLeft, edits>>

\* the Cancel button and the Escape key of the flow-edit form
flowModalCancel ==
    /\ FlowModalVisible
    /\ editingFlow' = <<>>
    /\ selectedFlowId' = 0
    /\ lastOp' = NoOp
    /\ UNCHANGED <<stages, flows, selectedStageId, isCreatingBranch,
                   editingStage, clock, creationsLeft, edits>>

\* handleFlowUpdate (the Save button and the Enter key of the form)
handleFlowUpdate ==
    /\ FlowModalVisible
    /\ \E roundsUp \in BOOLEAN :
          flows' = FlowUpdateResult(editingFlow[1], roundsUp)
    /\ editingFlow' = <<>>
    /\ selectedFlowId' = 0
    /\ lastOp' = Op("applyManualEdit", editingFlow[1].fromStageId, editingFlow[1].id)
    /\ UNCHANGED <<stages, selectedStageId, isCreatingBranch, editingStage,
                   clock, creationsLeft, edits>>

\* handleStageDelete without the guard of lines 673-677: a stage with no
\* incoming flow is removed like any other, nothing being recalculated for
\* the parent it does not have
handleStageDelete_NoRootGuard(stageId) ==
    LET incomingFlows == IncomingFlows(stageId, flows)
        updatedStages == SelectSeq(stages, LAMBDA s : s.id # stageId)
        remainingFlows ==
            SelectSeq(flows, LAMBDA f : f.fromStageId # stageId /\ f.toStageId # stageId)
        r == IF Len(incomingFlows) = 0
             THEN [ok |-> TRUE, flows |-> remainingFlows]
             ELSE recalculateSiblingFlowValues(incomingFlows[1].fromStageId,
                                               remainingFlows)
    IN  IF ~r.ok
        THEN /\ lastOp' = Op("deleteStageOverflow", stageId, 0)
             /\ UNCHANGED <<stages, flows, selectedStageId, isCreatingBranch>>
        ELSE /\ stages' = updatedStages
             /\ flows' = r.flows
             /\ lastOp' = Op("deleteStage", stageId, 0)
             /\ IF selectedStageId = stageId
                THEN selectedStageId' = 0 /\ isCreatingBranch' = FALSE
                ELSE UNCHANGED <<selectedStageId, isCreatingBranch>>

\* handleStageDelete, up to the stage-modal state its callers own.  A stack
\* overflow in the recursion throws before any setter is called.
\* a variant that takes the children of the deleted stage along
handleStageDelete_WithChildren(stageId) ==
    LET incomingFlows == IncomingFlows(stageId, flows)
        gone == {stageId} \cup {f.toStageId : f \in Range(OutgoingFlows(stageId, flows))}
    IN  IF Len(incomingFlows) = 0
        THEN /\ lastOp' = Op("deleteStage", stageId, 0)
             /\ UNCHANGED <<stages, flows, selectedStageId, isCreatingBranch>>
        ELSE /\ stages' = SelectSeq(stages, LAMBDA s : s.id \notin gone)
             /\ flows' = SelectSeq(flows, LAMBDA f : f.fromStageId \notin gone
                                                     /\ f.toStageId \notin gone)
             /\ lastOp' = Op("deleteStage", stageId, 0)
             /\ IF selectedStageId \in gone
                THEN selectedStageId' = 0 /\ isCreatingBranch' = FALSE
                ELSE UNCHANGED <<selectedStageId, isCreatingBranch>>

\* a variant that removes the flows into the deleted stage only
handleStageDelete_KeepsOutgoing(stageId) ==
    LET incomingFlows == IncomingFlows(stageId, flows)
    IN  IF Len(incomingFlows) = 0
        THEN /\ lastOp' = Op("deleteStage", stageId, 0)
             /\ UNCHANGED <<stages, flows, selectedStageId, isCreatingBranch>>
        ELSE /\ stages' = SelectSeq(stages, LAMBDA s : s.id # stageId)
             /\ flows' = SelectSeq(flows, LAMBDA f : f.toStageId # stageId)
             /\ lastOp' = Op("deleteStage", stageId, 0)
             /\ IF selectedStageId = stageId
                THEN selectedStageId' = 0 /\ isCreatingBranch' = FALSE
                ELSE UNCHANGED <<selectedStageId, isCreatingBranch>>

handleStageDelete(stageId) ==
    LET incomingFlows == IncomingFlows(stageId, flows)
        parentStageId == incomingFlows[1].fromStageId
        updatedStages == SelectSeq(stages, LAMBDA s : s.id # stageId)
        remainingFlows ==
            SelectSeq(flows, LAMBDA f : f.fromStageId # stageId /\ f.toStageId # stageId)
        r == recalculateSiblingFlowValues(parentStageId, remainingFlows)
    IN  IF Len(incomingFlows) = 0
        THEN \* the root marker: refused
             /\ lastOp' = Op("deleteStage", stageId, 0)
             /\ UNCHANGED <<stages, flows, selectedStageId, isCreatingBranch>>
        ELSE IF ~r.ok
        THEN /\ lastOp' = Op("deleteStageOverflow", stageId, 0)
             /\ UNCHANGED <<stages, flows, selectedStageId, isCreatingBranch>>
        ELSE /\ stages' = updatedStages
             /\ flows' = r.flows
             /\ lastOp' = Op("deleteStage", stageId, 0)
             /\ IF selectedStageId = stageId
                THEN selectedStageId' = 0 /\ isCreatingBranch' = FALSE
                ELSE UNCHANGED <<selectedStageId, isCreatingBranch>>

\* deleteStage as an operation on any stage: the marker's context menu
\* (StageMarker.handleDeleteClick) calls handleStageDelete; the menu is
\* offered for stages with an incoming flow, the handler itself also
\* accepts a root and refuses it
deleteStage(stageId) ==
    /\ stageId \in StageIds
    /\ handleStageDelete(stageId)
    /\ UNCHANGED <<selectedFlowId, editingFlow, editingStage, clock, creationsLeft, edits>>

\* handleStageModalDelete: the modal shows its delete button for a stage
\* with an incoming flow
handleStageModalDelete ==
    /\ StageModalVisible
    /\ Len(IncomingFlows(editingStage[1].id, flows)) > 0
    /\ handleStageDelete(editingStage[1].id)
    /\ IF lastOp'.op = "deleteStageOverflow"
       THEN UNCHANGED editingStage
       ELSE editingStage' = <<>>
    /\ UNCHANGED <<selectedFlowId, editingFlow, clock, creationsLeft, edits>>

\* handleDisconnectParent without line 1293: only the former parent's side
\* is recalculated
handleDisconnectParent_ParentOnly(flowId) ==
    /\ flowId \in FlowIds
    /\ LET flow == FlowById(flowId)
           parentStageId == flow.fromStageId
           disconnectedStageId == flow.toStageId
           removed == SelectSeq(flows, LAMBDA f : f.id # flowId)
           r1 == recalculateSiblingFlowValues(parentStageId, removed)
       IN  /\ selectedStageId = disconnectedStageId
           /\ disconnectedStageId \in StageIds
           /\ Len(IncomingFlows(disconnectedStageId, flows)) > 1
           /\ IF r1.ok
              THEN /\ flows' = r1.flows
                   /\ lastOp' = Op("disconnectFlow", disconnectedStageId, flowId)
              ELSE /\ lastOp' = Op("disconnectFlowOverflow", disconnectedStageId, flowId)
                   /\ UNCHANGED flows
    /\ UNCHANGED <<stages, selectedStageId, isCreatingBranch, selectedFlowId,
                   editingFlow, editingStage, clock, creationsLeft, edits>>

\* handleDisconnectParent: the disconnect dot of an incoming flow is shown
\* on the selected stage when it has more than one incoming flow
handleDisconnectParent(flowId) ==
    /\ flowId \in FlowIds
    /\ LET flow == FlowById(flowId)
           parentStageId == flow.fromStageId
           disconnectedStageId == flow.toStageId
           removed == SelectSeq(flows, LAMBDA f : f.id # flowId)
           r1 == recalculateSiblingFlowValues(parentStageId, removed)
           r2 == recalculateSiblingFlowValues(disconnectedStageId, r1.flows)
       IN  /\ selectedStageId = disconnectedStageId
           /\ disconnectedStageId \in StageIds
           /\ Len(IncomingFlows(disconnectedStageId, flows)) > 1
           /\ IF r1.ok /\ r2.ok
              THEN /\ flows' = r2.flows
                   /\ lastOp' = Op("disconnectFlow", disconnectedStageId, flowId)
              ELSE /\ lastOp' = Op("disconnectFlowOverflow", disconnectedStageId, flowId)
                   /\ UNCHANGED flows
    /\ UNCHANGED <<stages, selectedStageId, isCreatingBranch, selectedFlowId,
                   editingFlow, editingStage, clock, creationsLeft, edits>>

(***************************************************************************)
(* Rendering: the vertical layout of the flow bands at a marker, in pixels *)
(* measured down from the top edge of the marker (node).                   *)
(***************************************************************************)
MIN_MARKER_HEIGHT == 480
HEIGHT_SCALE == 8
FLOW_SPACING == 8
MIN_FLOW_WIDTH == 20

\* Math.max(20, flow.value * HEIGHT_SCALE)
FlowWidth(f) == RMax(Num(MIN_FLOW_WIDTH), RMul(f.value, Num(HEIGHT_SCALE)))

\* a variant that leaves out the spacing between the flows
RECURSIVE StackHeight_NoSpacing(_, _)
StackHeight_NoSpacing(fl, n) ==
    IF n = 0 THEN Num(0)
    ELSE RAdd(StackHeight_NoSpacing(fl, n - 1), FlowWidth(fl[n]))

\* the loops of getNodeHeight: the widths of the first n flows with the
\* spacing between them
RECURSIVE StackHeight(_, _)
StackHeight(fl, n) ==
    IF n = 0 THEN Num(0)
    ELSE LET below == IF n > 1
                      THEN RAdd(StackHeight(fl, n - 1), Num(FLOW_SPACING))
                      ELSE Num(0)
         IN  RAdd(below, FlowWidth(fl[n]))

\* a variant that gives the minimum marker height also to a marker whose
\* flows all have the value 0
getNodeHeight_MinimumForZero(stageId) ==
    LET incomingFlows == IncomingFlows(stageId, flows)
        outgoingFlows == OutgoingFlows(stageId, flows)
        counted == IF Len(incomingFlows) = 0 THEN outgoingFlows ELSE incomingFlows
    IN  IF SumValues(counted) = Num(0)
        THEN Num(MIN_MARKER_HEIGHT)
        ELSE StackHeight(counted, Len(counted))

\* getNodeHeight
getNodeHeight(stageId) ==
    LET incomingFlows == IncomingFlows(stageId, flows)
        outgoingFlows == OutgoingFlows(stageId, flows)
        incomingHeight == StackHeight(incomingFlows, Len(incomingFlows))
        outgoingHeight == StackHeight(outgoingFlows, Len(outgoingFlows))
        totalHeight == IF Len(incomingFlows) = 0 THEN outgoingHeight
                       ELSE incomingHeight
    IN  IF Len(incomingFlows) = 0 /\ Len(outgoingFlows) = 0
        THEN Num(MIN_MARKER_HEIGHT)
        ELSE totalHeight

\* sourceOffset / targetOffset of the k-th flow of the sorted list
RECURSIVE BandOffset(_, _)
BandOffset(sorted, k) ==
    IF k = 1 THEN Num(0)
    ELSE RAdd(BandOffset(sorted, k - 1),
              RAdd(RMul(sorted[k - 1].value, Num(HEIGHT_SCALE)), Num(FLOW_SPACING)))

\* the band of the k-th flow: [center - width / 2, center + width / 2]
Band(sorted, k) ==
    LET flowWidth == FlowWidth(sorted[k])
        center == RAdd(BandOffset(sorted, k), RDiv(flowWidth, Num(2)))
    IN  [flow |-> sorted[k].id,
         top |-> RSub(center, RDiv(flowWidth, Num(2))),
         bottom |-> RAdd(center, RDiv(flowWidth, Num(2)))]

\* Array.prototype.sort is stable: the orders a sort by key can give are the
\* arrangements p of the indices with non-decreasing keys that keep equal
\* keys in array order
IsStableSort(p, key) ==
    /\ \A i, j \in DOMAIN p : i # j => p[i] # p[j]
    /\ \A i, j \in DOMAIN p :
          i < j => \/ key[p[i]] < key[p[j]]
                   \/ key[p[i]] = key[p[j]] /\ p[i] < p[j]

\* flowsFromSameSource: sorted by branchIndex
FlowsFromSameSource(stageId) ==
    LET out == OutgoingFlows(stageId, flows)
        key == [i \in DOMAIN out |-> out[i].branchIndex]
        p == CHOOSE q \in [DOMAIN out -> DOMAIN out] : IsStableSort(q, key)
    IN  [k \in DOMAIN out |-> out[p[k]]]

\* flowsToSameTarget: sorted by the vertical position of the source markers,
\* which a click or a drag puts anywhere; fromYRank ranks the source stages
\* by it (stages at the same height share a rank)
FlowsToSameTarget(stageId, fromYRank) ==
    LET inc == IncomingFlows(stageId, flows)
        key == [i \in DOMAIN inc |-> fromYRank[inc[i].fromStageId]]
        p == CHOOSE q \in [DOMAIN inc -> DOMAIN inc] : IsStableSort(q, key)
    IN  [k \in DOMAIN inc |-> inc[p[k]]]

\* the flows that are drawn: both stages exist (lines 1146-1155)
Rendered(f) == f.fromStageId \in StageIds /\ f.toStageId \in StageIds

\* A marker drag.  StageMarker.handleMouseMove turns the mouse movement into
\* a position (in percent of the canvas width, whatever the canvas range),
\* keeps it within [minX, 100 %] and calls onDrag; getMinXForStage gives
\* minX = 0 for every stage.  handleStageDrag snaps the position and writes
\* it with onStagesChangeNoHistory.  The last mouse position of the drag is
\* the one that stays.
getMinXForStage(stageId) == 0

\* handleStageDrag_WithHistory: the drag written with onStagesChange, the
\* setter line 709 falls back to when no history-free one is passed
handleStageDrag_WithHistory(stageId, deltaX) ==
    LET stage == StageById(stageId)
        deltaPosition == RMul(Frac(deltaX, canvasWidth), Num(1000))
        moved == RAdd(Num(stage.position), deltaPosition)
        newPosition == RMin(Num(1000), RMax(Num(0), moved))
    IN  /\ stageId \in StageIds
        /\ drags < MaxDrags
        /\ drags' = drags + 1
        /\ stages' = [i \in DOMAIN stages |->
                         IF stages[i].id = stageId
                         THEN [stages[i] EXCEPT !.position = snapToTicker(newPosition)]
                         ELSE stages[i]]
        /\ lastOp' = Op("drag", stageId, 0)
        /\ historyRef' = Append(historyRef, [stages |-> stages, flows |-> flows])
        /\ historyIndexRef' = Len(historyRef)
        /\ canUndo' = TRUE
        /\ UNCHANGED <<flows, selectedStageId, isCreatingBranch, selectedFlowId,
                       editingFlow, editingStage, clock, creationsLeft, edits,
                       changes, undos, input, output>>

handleStageDrag(stageId, deltaX) ==
    LET stage == StageById(stageId)
        deltaPosition == RMul(Frac(deltaX, canvasWidth), Num(1000))
        moved == RAdd(Num(stage.position), deltaPosition)
        minPosition == RMul(Frac(getMinXForStage(stageId), canvasWidth), Num(1000))
        newPosition == RMin(Num(1000), RMax(minPosition, moved))
        snappedPosition == snapToTicker(newPosition)
    IN  /\ stageId \in StageIds
        /\ drags < MaxDrags
        /\ drags' = drags + 1
        /\ stages' = [i \in DOMAIN stages |->
                         IF stages[i].id = stageId
                         THEN [stages[i] EXCEPT !.position = snappedPosition]
                         ELSE stages[i]]
        /\ lastOp' = Op("drag", stageId, 0)
        /\ UNCHANGED <<flows, selectedStageId, isCreatingBranch, selectedFlowId,
                       editingFlow, editingStage, clock, creationsLeft, edits>>
        /\ UNCHANGED <<app, input, output>>

(***************************************************************************)
(* App.tsx: the undo history.  historyRef is the array of saved graphs,    *)
(* historyIndexRef the (0-based) index of the current entry.  A saved      *)
(* graph is a JSON deep copy; JSON text carries every finite number        *)
(* exactly and writes NaN and the infinities as null.  The history is      *)
(* only read by handleUndo: the specifications without undo leave it at    *)
(* its first entry.                                                        *)
(***************************************************************************)
HISTORY_LIMIT == 50

JsonNull == <<0, -1>>

JsonNumber(v) == IF IsFinite(v) THEN v ELSE JsonNull

JsonCopy(st, fl) ==
    [stages |-> st,
     flows |-> [i \in DOMAIN fl |->
                   [fl[i] EXCEPT !.value = JsonNumber(fl[i].value)]]]

\* saveToHistory_KeepsFuture: saveToHistory without the slice at the index
saveToHistory_KeepsFuture(h, idx, currentStages, currentFlows) ==
    LET pushed == Append(h, JsonCopy(currentStages, currentFlows))
    IN  IF Len(pushed) > HISTORY_LIMIT
        THEN [history |-> Tail(pushed), index |-> Len(pushed) - 2]
        ELSE [history |-> pushed, index |-> Len(pushed) - 1]

\* saveToHistory(currentStages, currentFlows) on history h with index idx
saveToHistory(h, idx, currentStages, currentFlows) ==
    LET kept == IF idx < Len(h) - 1 THEN SubSeq(h, 1, idx + 1) ELSE h
        pushed == Append(kept, JsonCopy(currentStages, currentFlows))
    IN  IF Len(pushed) > HISTORY_LIMIT
        THEN [history |-> Tail(pushed), index |-> Len(pushed) - 2]
        ELSE [history |-> pushed, index |-> Len(pushed) - 1]

\* n calls of handleStagesChange / handleFlowsChange made by one handler:
\* each saves the graph of the render the handler ran in
RECURSIVE SaveCalls(_, _, _)
SaveCalls(h, idx, n) ==
    IF n = 0 THEN [history |-> h, index |-> idx]
    ELSE LET saved == saveToHistory(h, idx, stages, flows)
         IN  SaveCalls(saved.history, saved.index, n - 1)

\* The graphs after each history-saving setter call of the handler that
\* took the step: the stage array is set first when both are set.
ChangesOf(n) ==
    IF n = 0 THEN <<>>
    ELSE IF n = 1 THEN <<[stages |-> stages', flows |-> flows']>>
    ELSE <<[stages |-> stages', flows |-> flows],
           [stages |-> stages', flows |-> flows']>>

\* The changes made since the last undo, counted from the graph they
\* started from, and the undos made since the last change.
Recorded(n) ==
    /\ Len(historyRef) + n <= MaxHistory
    /\ historyRef' = SaveCalls(historyRef, historyIndexRef, n).history
    /\ historyIndexRef' = SaveCalls(historyRef, historyIndexRef, n).index
    /\ canUndo' = IF n = 0 THEN canUndo ELSE historyIndexRef' > 0
    /\ changes' = IF n = 0 THEN changes
                  ELSE IF undos > 0
                       THEN <<[stages |-> stages, flows |-> flows]>> \o ChangesOf(n)
                       ELSE changes \o ChangesOf(n)
    /\ undos' = IF n = 0 THEN undos ELSE 0

\* The setters of App: with the history kept, or with the history left out
\* of the state (it is only read by handleUndo).
App(recording, n) ==
    /\ IF recording THEN Recorded(n) ELSE UNCHANGED app
    /\ UNCHANGED <<drags, input, output>>

\* handleUndo
handleUndo ==
    /\ historyIndexRef > 0
    /\ historyIndexRef' = historyIndexRef - 1
    /\ stages' = historyRef[historyIndexRef' + 1].stages
    /\ flows' = historyRef[historyIndexRef' + 1].flows
    /\ canUndo' = (historyIndexRef' > 0)
    /\ undos' = undos + 1
    /\ lastOp' = Op("undo", 0, 0)
    /\ UNCHANGED <<selectedStageId, isCreatingBranch, selectedFlowId,
                   editingFlow, editingStage, clock, creationsLeft, edits,
                   historyRef, changes>>

(***************************************************************************)
(* The editor: every handler, one at a time (single-threaded event loop),  *)
(* each with the number of history-saving setter calls it makes.           *)
(***************************************************************************)
Created == lastOp'.op = "branchCreate"
Deleted == lastOp'.op = "deleteStage" /\ Len(stages') < Len(stages)
Disconnected == lastOp'.op = "disconnectFlow"

Editor(recording) ==
    \/ /\ \E stage \in Range(stages) : handleStageClick(stage)
       /\ App(recording, IF Created THEN 1 ELSE 0)
    \/ createBranchClick /\ App(recording, 0)
    \/ stageModalCancel /\ App(recording, 0)
    \/ handleStageModalUpdate /\ App(recording, 1)
    \/ /\ \E clickX \in ClickXs : handleCanvasClick(clickX)
       /\ App(recording, IF Created THEN 2 ELSE 0)
    \/ (\E flowId \in FlowIds : handleFlowClick(flowId)) /\ App(recording, 0)
    \/ (\E percent \in Percents : flowValueChange(percent)) /\ App(recording, 0)
    \/ flowModalCancel /\ App(recording, 0)
    \/ handleFlowUpdate /\ App(recording, 1)
    \/ /\ \E stageId \in StageIds : deleteStage(stageId)
       /\ App(recording, IF Deleted THEN 2 ELSE 0)
    \/ /\ handleStageModalDelete
       /\ App(recording, IF Deleted THEN 2 ELSE 0)
    \/ /\ \E flowId \in FlowIds : handleDisconnectParent(flowId)
       /\ App(recording, IF Disconnected THEN 1 ELSE 0)

Next == Editor(FALSE)

Spec == Init /\ [][Next]_vars

(***************************************************************************)
(* The editor continued from two graphs that Spec reaches with its three   *)
(* creations (DagReached and ChainReached hold in states of Spec), with    *)
(* room for further creations and a fresh edit.                            *)
(*   Dag:   stages 1 (0 %), 2 (2 %), 3 (1 %); flows 1->2, 1->3, 3->2       *)
(*   Chain: stages 1 (0 %), 2 (1 %), 3 (2 %), 4 (3 %); flows 1->2->3->4    *)
(***************************************************************************)
MaxDeepCreations == 1

NewFlow(id, from, to, value, branchIndex) ==
    [id |-> id, fromStageId |-> from, toStageId |-> to, value |-> value,
     branchIndex |-> branchIndex]

DagStages == <<[id |-> 1, position |-> 0], [id |-> 2, position |-> 20],
               [id |-> 3, position |-> 10]>>
DagFlows == <<NewFlow(2, 1, 2, Num(50), 0), NewFlow(3, 1, 3, Num(50), 1),
              NewFlow(4, 3, 2, Num(50), 0)>>
ChainStages == <<[id |-> 1, position |-> 0], [id |-> 2, position |-> 10],
                 [id |-> 3, position |-> 20], [id |-> 4, position |-> 30]>>
ChainFlows == <<NewFlow(2, 1, 2, Num(100), 0), NewFlow(3, 2, 3, Num(100), 0),
                NewFlow(4, 3, 4, Num(100), 0)>>

Idle ==
    /\ selectedStageId = 0
    /\ isCreatingBranch = FALSE
    /\ selectedFlowId = 0
    /\ editingFlow = <<>>
    /\ editingStage = <<>>

DagReached == stages = DagStages /\ flows = DagFlows /\ clock = 5 /\ Idle
ChainReached == stages = ChainStages /\ flows = ChainFlows /\ clock = 5 /\ Idle

InitDeep ==
    /\ \/ stages = DagStages /\ flows = DagFlows
       \/ stages = ChainStages /\ flows = ChainFlows
    /\ clock = 5
    /\ Idle
    /\ creationsLeft = MaxDeepCreations
    /\ edits = 0
    /\ lastOp = NoOp
    /\ historyRef = <<[stages |-> stages, flows |-> flows]>>
    /\ historyIndexRef = 0
    /\ changes = <<[stages |-> stages, flows |-> flows]>>
    /\ undos = 0
    /\ canUndo = FALSE
    /\ drags = 0
    /\ input = <<>>
    /\ output = <<>>

SpecDeep == InitDeep /\ [][Next]_vars

(***************************************************************************)
(* The editor continued from the graph that Spec reaches with two          *)
(* creations and its one edit (SqueezedReached holds in a state of Spec):  *)
(* the root's first flow was edited to a percentage below 0 and is at 0,   *)
(* its sibling carries everything.  A second edit form may be opened.      *)
(*   stages 1 (0), 2 (10), 3 (20); flows 1->2 = 0, 1->3 = 100              *)
(***************************************************************************)
SqueezedStages == <<[id |-> 1, position |-> 0], [id |-> 2, position |-> 10],
                    [id |-> 3, position |-> 20]>>
SqueezedFlows == <<NewFlow(2, 1, 2, Num(0), 0), NewFlow(3, 1, 3, Num(100), 1)>>

SqueezedReached ==
    /\ stages = SqueezedStages /\ flows = SqueezedFlows /\ clock = 4 /\ Idle
    /\ edits = MaxEdits

InitSqueezed ==
    /\ stages = SqueezedStages
    /\ flows = SqueezedFlows
    /\ clock = 4
    /\ Idle
    /\ creationsLeft = MaxDeepCreations
    /\ edits = 0
    /\ lastOp = NoOp
    /\ historyRef = <<[stages |-> stages, flows |-> flows]>>
    /\ historyIndexRef = 0
    /\ changes = <<[stages |-> stages, flows |-> flows]>>
    /\ undos = 0
    /\ canUndo = FALSE
    /\ drags = 0
    /\ input = <<>>
    /\ output = <<>>

SpecSqueezed == InitSqueezed /\ [][Next]_vars

(***************************************************************************)
(* The editor continued from the graph that Spec reaches with three        *)
(* creations and its one edit (ThrottledReached holds in a state of Spec): *)
(* the root's only flow was edited to 80 %, which leaves stage 2 with 80   *)
(* coming in and 50 + 50 going out.  A second edit form may be opened.     *)
(*   stages 1 (0), 2 (10), 3 (20), 4 (30);                                 *)
(*   flows 1->2 = 80, 2->3 = 50, 2->4 = 50                                 *)
(***************************************************************************)
ThrottledFlows == <<NewFlow(2, 1, 2, Num(80), 0), NewFlow(3, 2, 3, Num(50), 0),
                    NewFlow(4, 2, 4, Num(50), 1)>>

ThrottledReached ==
    /\ stages = ChainStages /\ flows = ThrottledFlows /\ clock = 5 /\ Idle
    /\ edits = MaxEdits

InitThrottled ==
    /\ stages = ChainStages
    /\ flows = ThrottledFlows
    /\ clock = 5
    /\ Idle
    /\ creationsLeft = MaxDeepCreations
    /\ edits = 0
    /\ lastOp = NoOp
    /\ historyRef = <<[stages |-> stages, flows |-> flows]>>
    /\ historyIndexRef = 0
    /\ changes = <<[stages |-> stages, flows |-> flows]>>
    /\ undos = 0
    /\ canUndo = FALSE
    /\ drags = 0
    /\ input = <<>>
    /\ output = <<>>

SpecThrottled == InitThrottled /\ [][Next]_vars

(***************************************************************************)
(* The editor continued from the graph that Spec reaches with its three    *)
(* creations, all from the root (FanReached holds in a state of Spec).     *)
(* One more flow may be created.                                           *)
(*   stages 1 (0), 2 (10), 3 (20), 4 (30);                                 *)
(*   flows 1->2 = 1->3 = 1->4 = 100/3 with branchIndex 0, 1, 2             *)
(***************************************************************************)
FanFlows == <<NewFlow(2, 1, 2, Frac(100, 3), 0), NewFlow(3, 1, 3, Frac(100, 3), 1),
              NewFlow(4, 1, 4, Frac(100, 3), 2)>>

FanReached == stages = ChainStages /\ flows = FanFlows /\ clock = 5 /\ Idle

InitFan ==
    /\ stages = ChainStages
    /\ flows = FanFlows
    /\ clock = 5
    /\ Idle
    /\ creationsLeft = MaxDeepCreations
    /\ edits = 0
    /\ lastOp = NoOp
    /\ historyRef = <<[stages |-> stages, flows |-> flows]>>
    /\ historyIndexRef = 0
    /\ changes = <<[stages |-> stages, flows |-> flows]>>
    /\ undos = 0
    /\ canUndo = FALSE
    /\ drags = 0
    /\ input = <<>>
    /\ output = <<>>

SpecFan == InitFan /\ [][Next]_vars

(***************************************************************************)
(* The editor with marker drags, continued from the graph that Spec        *)
(* reaches with two creations from the root (ForkReached holds in a state  *)
(* of Spec), with room for a further creation, an edit and a drag.         *)
(*   stages 1 (0), 2 (10), 3 (20); flows 1->2 = 50, 1->3 = 50              *)
(***************************************************************************)
ForkFlows == <<NewFlow(2, 1, 2, Num(50), 0), NewFlow(3, 1, 3, Num(50), 1)>>

ForkReached ==
    stages = SqueezedStages /\ flows = ForkFlows /\ clock = 4 /\ Idle

InitDrag ==
    /\ stages = SqueezedStages
    /\ flows = ForkFlows
    /\ clock = 4
    /\ Idle
    /\ creationsLeft = MaxDeepCreations
    /\ edits = 0
    /\ lastOp = NoOp
    /\ historyRef = <<[stages |-> stages, flows |-> flows]>>
    /\ historyIndexRef = 0
    /\ changes = <<[stages |-> stages, flows |-> flows]>>
    /\ undos = 0
    /\ canUndo = FALSE
    /\ drags = 0
    /\ input = <<>>
    /\ output = <<>>

NextDrag ==
    \/ Next
    \/ \E stageId \in StageIds, deltaX \in DragDeltas : handleStageDrag(stageId, deltaX)

SpecDrag == InitDrag /\ [][NextDrag]_vars

(***************************************************************************)
(* The editor with App's undo history kept and the undo button (Ctrl+Z).   *)
(***************************************************************************)
NextUndo ==
    \/ Editor(TRUE)
    \/ handleUndo /\ UNCHANGED <<drags, input, output>>

SpecUndo == Init /\ [][NextUndo]_vars

(***************************************************************************)
(* The editor with the keyboard.  While a marker is selected (isSelected = *)
(* selectedStageId === stage.id) its StageMarker listens for keydown on    *)
(* the document; on Escape, handleEscapeKey resets the marker's own label  *)
(* editing and calls onClick(stage), which is handleStageClick.  The key   *)
(* event is kept in input.  Continued from the fork of SpecDrag.           *)
(***************************************************************************)
handleEscapeKey(stage) ==
    /\ stage \in Range(stages)
    /\ selectedStageId = stage.id
    /\ handleStageClick(stage)
    /\ input' = <<[key |-> "Escape", stage |-> stage.id]>>
    /\ UNCHANGED <<app, drags, output>>

NextEscape ==
    \/ Next
    \/ \E stage \in Range(stages) : handleEscapeKey(stage)

SpecEscape == InitDrag /\ [][NextEscape]_vars

(***************************************************************************)
(* The marker heights on their own.  getNodeHeight is a function of the    *)
(* flows the component is given (App loads them from storage), so it is    *)
(* applied to every graph of four stages with flows 1 -> 2, 1 -> 3, 2 -> 3 *)
(* and 3 -> 4, each absent or with one of LayoutValues as its value.       *)
(* getNodeHeightCall puts the height of a marker into output; flowsChange  *)
(* raises the value of one flow and keeps the heights of before in output. *)
(* App's history plays no part and is left empty.                          *)
(***************************************************************************)
LayoutStages == <<[id |-> 1, position |-> 0], [id |-> 2, position |-> 100],
                  [id |-> 3, position |-> 200], [id |-> 4, position |-> 300]>>
LayoutValues == {Num(0), Num(1), Frac(5, 2), Num(10), Num(20)}
NoFlow == <<>>
LayoutFlow(id, from, to, v, branchIndex) ==
    IF v = NoFlow THEN <<>> ELSE <<NewFlow(id, from, to, v, branchIndex)>>

InitLayout ==
    /\ stages = LayoutStages
    /\ \E a, b, c, d \in LayoutValues \cup {NoFlow} :
          flows = LayoutFlow(5, 1, 2, a, 0)
                    \o LayoutFlow(6, 1, 3, b, IF a = NoFlow THEN 0 ELSE 1)
                    \o LayoutFlow(7, 2, 3, c, 0) \o LayoutFlow(8, 3, 4, d, 0)
    /\ clock = 9
    /\ Idle
    /\ creationsLeft = 0
    /\ edits = 0
    /\ lastOp = NoOp
    /\ historyRef = <<>>
    /\ historyIndexRef = 0
    /\ changes = <<>>
    /\ undos = 0
    /\ canUndo = FALSE
    /\ drags = 0
    /\ input = <<>>
    /\ output = <<>>

getNodeHeightCall(stageId) ==
    /\ output' = getNodeHeight(stageId)
    /\ lastOp' = Op("getNodeHeight", stageId, 0)
    /\ UNCHANGED <<stages, flows, selectedStageId, isCreatingBranch,
                   selectedFlowId, editingFlow, editingStage, clock,
                   creationsLeft, edits, app, drags, input>>

flowsChange(flowId, v) ==
    /\ flowId \in FlowIds
    /\ RLt(FlowById(flowId).value, v)
    /\ flows' = [i \in DOMAIN flows |->
                    IF flows[i].id = flowId THEN [flows[i] EXCEPT !.value = v]
                    ELSE flows[i]]
    /\ output' = [stageId \in StageIds |-> getNodeHeight(stageId)]
    /\ lastOp' = Op("flowsChange", 0, flowId)
    /\ UNCHANGED <<stages, selectedStageId, isCreatingBranch, selectedFlowId,
                   editingFlow, editingStage, clock, creationsLeft, edits,
                   app, drags, input>>

NextLayout ==
    \/ \E stageId \in StageIds : getNodeHeightCall(stageId)
    \/ \E flowId \in FlowIds, v \in LayoutValues : flowsChange(flowId, v)

SpecLayout == InitLayout /\ [][NextLayout]_vars

(***************************************************************************)
(* The position axis on its own.  snapToTicker and getTickerPositions are  *)
(* functions of their argument alone.  input is a position in ticks, taken *)
(* at every quarter of a tick within MaxOvershoot ticks of the two ends of *)
(* the canvas range and of position 0; the calls put their result into     *)
(* output, and the second calls apply the function once more (to the       *)
(* result of snapToTicker, which then becomes input; for getTickerPositions*)
(* the first result is kept in input).                                     *)
(***************************************************************************)
SnapInputs ==
    {Frac(q, 4) : q \in
        (4 * (CANVAS_MIN_POSITION - MaxOvershoot))..(4 * (CANVAS_MIN_POSITION + MaxOvershoot))
        \cup (-4 * MaxOvershoot)..(4 * MaxOvershoot)
        \cup (4 * (CANVAS_MAX_POSITION - MaxOvershoot))..(4 * (CANVAS_MAX_POSITION + MaxOvershoot))}

InitAxis ==
    /\ stages = <<[id |-> 1, position |-> 0]>>
    /\ flows = <<>>
    /\ clock = 2
    /\ Idle
    /\ creationsLeft = 0
    /\ edits = 0
    /\ lastOp = NoOp
    /\ historyRef = <<>>
    /\ historyIndexRef = 0
    /\ changes = <<>>
    /\ undos = 0
    /\ canUndo = FALSE
    /\ drags = 0
    /\ input \in SnapInputs
    /\ output = <<>>

AxisUnchanged ==
    UNCHANGED <<stages, flows, selectedStageId, isCreatingBranch,
                selectedFlowId, editingFlow, editingStage, clock,
                creationsLeft, edits, app, drags>>

snapToTickerCall ==
    /\ lastOp = NoOp
    /\ output' = snapToTicker(input)
    /\ lastOp' = Op("snapToTicker", 0, 0)
    /\ UNCHANGED input
    /\ AxisUnchanged

snapToTickerAgain ==
    /\ lastOp.op = "snapToTicker"
    /\ input' = Num(output)
    /\ output' = snapToTicker(Num(output))
    /\ lastOp' = Op("snapToTickerAgain", 0, 0)
    /\ AxisUnchanged

getTickerPositionsCall ==
    /\ lastOp = NoOp
    /\ output' = getTickerPositions
    /\ lastOp' = Op("getTickerPositions", 0, 0)
    /\ UNCHANGED input
    /\ AxisUnchanged

getTickerPositionsAgain ==
    /\ lastOp.op = "getTickerPositions"
    /\ input' = output
    /\ output' = getTickerPositions
    /\ lastOp' = Op("getTickerPositionsAgain", 0, 0)
    /\ AxisUnchanged

NextAxis ==
    \/ snapToTickerCall
    \/ snapToTickerAgain
    \/ getTickerPositionsCall
    \/ getTickerPositionsAgain

SpecAxis == InitAxis /\ [][NextAxis]_vars

(***************************************************************************)
(* Properties.                                                             *)
(***************************************************************************)

\* Out(s) and In(s) of the data model
Out(stageId, fl) == SumValues(OutgoingFlows(stageId, fl))
In(stageId, fl) == getIncomingFlowValue(stageId, fl)

HasOutgoing(stageId, fl) == Len(OutgoingFlows(stageId, fl)) > 0

\* |Out(s) - In(s)| <= 0.01
BalancedAt(stageId, fl) ==
    RLe(RAbs(RSub(Out(stageId, fl), In(stageId, fl))), Epsilon)

\* conservation over a stage array and a flow array
Conserved(stageList, fl) ==
    \A s \in Range(stageList) : HasOutgoing(s.id, fl) => BalancedAt(s.id, fl)

\* every outgoing flow of the stage has value In(s) / (number of outgoing flows)
EqualSplitAt(stageId, fl) ==
    \A f \in Range(OutgoingFlows(stageId, fl)) :
        f.value = RDiv(In(stageId, fl), Num(Len(OutgoingFlows(stageId, fl))))

\* C1: after any sequence of completed operations every stage that has an
\* outgoing flow satisfies |Out(s) - In(s)| <= 0.01.
C1_Conservation == Conserved(stages, flows)

\* two values equal within the epsilon of the data model
Near(a, b) == RLe(RAbs(RSub(a, b)), Epsilon)

\* every outgoing flow of the stage is In(s) / (number of outgoing flows)
\* within epsilon
NearEqualSplitAt(stageId, fl) ==
    \A f \in Range(OutgoingFlows(stageId, fl)) :
        Near(f.value, RDiv(In(stageId, fl), Num(Len(OutgoingFlows(stageId, fl)))))

\* the stages reachable from a set of stages along flows
Successors(S, fl) == {f.toStageId : f \in {g \in Range(fl) : g.fromStageId \in S}}
RECURSIVE Closure(_, _)
Closure(S, fl) ==
    LET T == S \cup Successors(S, fl)
    IN  IF T = S THEN S ELSE Closure(T, fl)
Descendants(stageId, fl) == Closure(Successors({stageId}, fl), fl)
Acyclic(fl) == \A f \in Range(fl) : f.fromStageId \notin Descendants(f.fromStageId, fl)

\* C2: once a branch creation (with the balancing pass that follows it) has
\* completed, each of the k outgoing flows of the source stage has value
\* incomingValue(source) / k, within epsilon.
C2_BranchCreateEqualSplit ==
    lastOp.op = "branchCreate" => NearEqualSplitAt(lastOp.stage, flows)

\* C3: a completed manual edit leaves the edited flow at exactly
\* clamp(0, incoming, percent / 100 * incoming), incoming being the source
\* stage's incoming value before the edit.
C3_EditedValueKept ==
    [][lastOp'.op = "applyManualEdit" =>
        LET ef == editingFlow[1]
            incoming == In(ef.fromStageId, flows)
            target == RMul(RDiv(ef.value, Num(100)), incoming)
            expected == IF RLt(target, Num(0)) THEN Num(0)
                        ELSE IF RGt(target, incoming) THEN incoming
                        ELSE target
        IN  \E i \in DOMAIN flows' :
               /\ flows'[i].id = ef.id
               /\ flows'[i].value = expected]_vars

\* C3 witness: an edit to a negative percentage of a flow that has siblings
\* has completed and the flow is at 0 while its source receives more than 0.
C3_Witness ==
    /\ lastOp.op = "applyManualEdit"
    /\ Len(OutgoingFlows(lastOp.stage, flows)) >= 2
    /\ RGt(In(lastOp.stage, flows), Num(0))
    /\ \E f \in Range(flows) : f.id = lastOp.flow /\ f.value = Num(0)

\* C4: a manual edit completed on a graph that satisfied conservation leaves
\* the outgoing flows of the edited flow's source stage summing to the
\* stage's incoming value within 0.01.
C4_EditConservesSource ==
    [][(lastOp'.op = "applyManualEdit" /\ Conserved(stages, flows)) =>
        BalancedAt(lastOp'.stage, flows')]_vars

\* C5: deleteStage on a stage without incoming flows leaves the set of
\* stages and the set of flows unchanged.
C5_RootDeletionRefused ==
    [][(/\ lastOp'.op = "deleteStage"
        /\ lastOp'.stage \in StageIds
        /\ Len(IncomingFlows(lastOp'.stage, flows)) = 0) =>
        (Range(stages') = Range(stages) /\ Range(flows') = Range(flows))]_vars

\* C5 witness: deleteStage has acted on a stage without incoming flows that
\* is the source of flows, and the stage is still there.
C5_Witness ==
    /\ lastOp.op = "deleteStage"
    /\ lastOp.stage \in StageIds
    /\ Len(IncomingFlows(lastOp.stage, flows)) = 0
    /\ HasOutgoing(lastOp.stage, flows)

\* C6: after deleteStage(X) on a stage with an incoming flow, X and every
\* flow touching X are gone, and every former parent P of X has its
\* surviving outgoing flows at incomingValue(P) / (their number).
C6_DeleteRepairsEveryParent ==
    [][(/\ lastOp'.op = "deleteStage"
        /\ Len(IncomingFlows(lastOp'.stage, flows)) > 0) =>
        LET X == lastOp'.stage
        IN  /\ \A s \in Range(stages') : s.id # X
            /\ \A f \in Range(flows') : f.fromStageId # X /\ f.toStageId # X
            /\ \A f \in Range(IncomingFlows(X, flows)) :
                  NearEqualSplitAt(f.fromStageId, flows')]_vars

\* C7: after deleteStage(X) on a graph that satisfied conservation, every
\* former child of X, and every stage below it, that has outgoing flows
\* satisfies |Out - In| <= 0.01 (In being 100 for a child left without
\* incoming flows).
C7_DeleteRepairsChildren ==
    [][(/\ lastOp'.op = "deleteStage"
        /\ Len(IncomingFlows(lastOp'.stage, flows)) > 0
        /\ Conserved(stages, flows)) =>
        LET children == {f.toStageId : f \in Range(OutgoingFlows(lastOp'.stage, flows))}
        IN  \A c \in Closure(children, flows') :
               HasOutgoing(c, flows') => BalancedAt(c, flows')]_vars

C9_RebalanceConserves ==
    Acyclic(flows) =>
        \A roundsUp \in BOOLEAN : Conserved(stages, balanceFlows(flows, roundsUp))

\* C10: a second balanceFlows pass changes no flow value by more than 0.01.
C10_RebalanceIdempotent ==
    \A r1 \in BOOLEAN, r2 \in BOOLEAN :
        LET once == balanceFlows(flows, r1)
            twice == balanceFlows(once, r2)
        IN  \A i \in DOMAIN once : Near(twice[i].value, once[i].value)

\* C11: a manual edit never divides by zero.  When the other outgoing flows
\* of the edited flow's source sum to zero, each of them is set to 0.01, and
\* after the edit every flow value is a number (not NaN, not infinite) that
\* is not negative.
C11_EditNeverDividesByZero ==
    [][lastOp'.op = "applyManualEdit" =>
        LET ef == editingFlow[1]
            others == SelectSeq(OutgoingFlows(ef.fromStageId, flows),
                                LAMBDA f : f.id # ef.id)
        IN  /\ \A i \in DOMAIN flows' :
                  IsFinite(flows'[i].value) /\ RGe(flows'[i].value, Num(0))
            /\ (Len(others) > 0 /\ SumValues(others) = Num(0)) =>
                  \A i \in DOMAIN flows' :
                     (flows'[i].fromStageId = ef.fromStageId /\ flows'[i].id # ef.id)
                        => flows'[i].value = MinimumValue]_vars

\* C12: the flow graph is acyclic in every state.
C12_Acyclic == Acyclic(flows)

\* C14: every deleteStage and every disconnectFlow runs to completion: the
\* recursion of the recalculation returns.
C14_DeleteAndDisconnectReturn ==
    lastOp.op \notin {"deleteStageOverflow", "disconnectFlowOverflow"}

\* C13: on an acyclic graph, also one with several paths to a stage,
\* recalculateSiblingFlowValues returns, and in the flows it returns every
\* stage reachable from the start stage (the start stage included) that has
\* outgoing flows has each of them at its incoming value divided by their
\* number.
C13_RecalculateSubtree ==
    Acyclic(flows) =>
        \A s \in StageIds :
            LET r == recalculateSiblingFlowValues(s, flows)
            IN  /\ r.ok
                /\ \A t \in {s} \cup Descendants(s, r.flows) :
                      HasOutgoing(t, r.flows) => EqualSplitAt(t, r.flows)

\* C13 witness: an acyclic graph in which a stage with outgoing flows is
\* reached from the start stage along two flows into it, and on which the
\* recalculation from the start stage changes the flows of that stage.
C13_Witness ==
    /\ Acyclic(flows)
    /\ \E s \in StageIds, t \in StageIds :
          LET r == recalculateSiblingFlowValues(s, flows)
          IN  /\ t \in Descendants(s, flows)
              /\ Len(IncomingFlows(t, flows)) >= 2
              /\ HasOutgoing(t, flows)
              /\ r.ok
              /\ OutgoingFlows(t, r.flows) # OutgoingFlows(t, flows)

\* C15: at most one of the three interaction modes is active in any state:
\* stage edit (editingStage), flow edit (editingFlow / selectedFlowId) and
\* branch selection (selectedStageId / isCreatingBranch).
C15_OneModeAtATime ==
    LET stageEdit == editingStage # <<>>
        flowEdit == editingFlow # <<>> \/ selectedFlowId # 0
        branchSelection == selectedStageId # 0 \/ isCreatingBranch
    IN  /\ ~(stageEdit /\ flowEdit)
        /\ ~(stageEdit /\ branchSelection)
        /\ ~(flowEdit /\ branchSelection)

\* C16: a flow is created only towards a target whose position is strictly
\* greater than the source's at that moment.  In branch mode a click on an
\* existing stage that is not to the right of the source, and a click on
\* the canvas at or to the left of the source, add no stage and no flow and
\* change no flow value; a stage added by a canvas click is on a ticker
\* strictly to the right of the source.
C16_CreationOnlyToTheRight ==
    [][/\ lastOp'.op = "branchCreate" =>
            LET f == flows'[Len(flows')]
                source == CHOOSE st \in Range(stages') : st.id = f.fromStageId
                target == CHOOSE st \in Range(stages') : st.id = f.toStageId
            IN  /\ Len(flows') = Len(flows) + 1
                /\ f.id = lastOp'.flow
                /\ f.fromStageId = selectedStageId
                /\ target.position > source.position
                /\ target.position \in CANVAS_MIN_POSITION..CANVAS_MAX_POSITION
                /\ Len(stages') > Len(stages) => target = stages'[Len(stages')]
       /\ (isCreatingBranch /\ selectedStageId \in StageIds) =>
            LET source == StageById(selectedStageId)
                Refused == /\ stages' = stages
                           /\ flows' = flows
            IN  /\ \A stage \in Range(stages) :
                      (stage.position <= source.position /\ handleStageClick(stage))
                         => Refused
                /\ \A clickX \in ClickXs :
                      (RLe(Num(clickX), getStageX(source.position))
                          /\ handleCanvasClick(clickX)) => Refused]_vars

\* C16 witness: a canvas click in branch mode has added a stage to the right
\* of a source that is itself to the right of other stages and of a click
\* position the canvas offers.
C16_Witness ==
    /\ lastOp.op = "branchCreate"
    /\ stages[Len(stages)].id = flows[Len(flows)].toStageId
    /\ lastOp.stage \in StageIds
    /\ \E clickX \in ClickXs :
          RLe(Num(clickX), getStageX(StageById(lastOp.stage).position))
    /\ \E st \in Range(stages) :
          st.id # lastOp.stage /\ st.position <= StageById(lastOp.stage).position
    /\ stages[Len(stages)].position > StageById(lastOp.stage).position

\* The flows are exactly two flows from one stage R to two different
\* stages, with values a and b in array order.
TwoBranches(fl, a, b) ==
    /\ Len(fl) = 2
    /\ fl[1].fromStageId = fl[2].fromStageId
    /\ fl[1].toStageId # fl[2].toStageId
    /\ fl[1].value = a
    /\ fl[2].value = b

\* C17: the worked example.  From the root R alone, branchCreate(R, A)
\* gives R->A = 100; branchCreate(R, B) then gives 50 and 50; editing R->A
\* to 80 % then gives R->A = 80 and R->B = 20; deleteStage(A) then leaves
\* the single flow R->B = 100.
C17_WorkedExample ==
    [][/\ (flows = <<>> /\ lastOp'.op = "branchCreate") =>
            /\ Len(flows') = 1
            /\ flows'[1].value = Num(100)
       /\ (/\ Len(flows) = 1
           /\ flows[1].value = Num(100)
           /\ lastOp'.op = "branchCreate"
           /\ lastOp'.stage = flows[1].fromStageId
           /\ flows'[Len(flows')].toStageId # flows[1].toStageId) =>
            TwoBranches(flows', Num(50), Num(50))
       /\ (/\ TwoBranches(flows, Num(50), Num(50))
           /\ lastOp'.op = "applyManualEdit"
           /\ editingFlow = <<[flows[1] EXCEPT !.value = Num(80)]>>) =>
            TwoBranches(flows', Num(80), Num(20))
       /\ (/\ TwoBranches(flows, Num(80), Num(20))
           /\ lastOp'.op = "deleteStage"
           /\ lastOp'.stage = flows[1].toStageId) =>
            /\ flows' = <<[flows[2] EXCEPT !.value = Num(100)]>>
            /\ flows[1].toStageId \notin {st.id : st \in Range(stages')}]_vars

\* C17 witness: the example has been played to its end: after two creations
\* and an edit, the deletion of the first branch's stage has left the second
\* branch as the root's only flow.
C17_Witness ==
    /\ lastOp.op = "deleteStage"
    /\ creationsLeft = MaxCreations - 2
    /\ edits = 1
    /\ Len(stages) = 2
    /\ lastOp.stage \notin StageIds
    /\ Len(flows) = 1
    /\ flows[1].branchIndex = 1
    /\ flows[1].fromStageId = stages[1].id
    /\ flows[1].value = Num(100)

\* C18: undo restores the graph that existed immediately before the most
\* recent recorded change.  After the recorded changes S0 -> S1 -> ... -> Sn
\* (each one history-saving setter call), k undos in a row (k <= n) leave
\* the graph S(n-k); changes holds S0 .. Sn and undos is k.
C18_UndoRestoresPrevious ==
    (lastOp.op = "undo" /\ undos <= Len(changes) - 1) =>
        /\ stages = changes[Len(changes) - undos].stages
        /\ flows = changes[Len(changes) - undos].flows

\* the values of the first n flows that target the stage, added up
RECURSIVE SumInto(_, _, _)
SumInto(stageId, fl, n) ==
    IF n = 0 THEN Num(0)
    ELSE IF fl[n].toStageId = stageId
    THEN RAdd(SumInto(stageId, fl, n - 1), fl[n].value)
    ELSE SumInto(stageId, fl, n - 1)

\* C19: getIncomingFlowValue(stage) is 100 when no flow targets the stage,
\* and otherwise the sum of the values of the flows that target it, also
\* when that sum is 0 or is not 100.
C19_IncomingFlowValue ==
    \A stageId \in StageIds \cup {0} :
        getIncomingFlowValue(stageId, flows) =
            IF \A i \in DOMAIN flows : flows[i].toStageId # stageId
            THEN Num(100)
            ELSE SumInto(stageId, flows, Len(flows))

\* C19 witness: a stage whose incoming flows sum to 0, and a stage with
\* two incoming flows whose sum is neither 0 nor 100.
C19_Witness ==
    /\ \E stageId \in StageIds :
          /\ Len(IncomingFlows(stageId, flows)) > 0
          /\ getIncomingFlowValue(stageId, flows) = Num(0)
    /\ \E stageId \in StageIds :
          /\ Len(IncomingFlows(stageId, flows)) >= 2
          /\ getIncomingFlowValue(stageId, flows) \notin {Num(0), Num(100)}

\* two bands do not overlap (they may touch)
Disjoint(b1, b2) == RLe(b1.bottom, b2.top) \/ RLe(b2.bottom, b1.top)

\* the drawn bands of a sorted list are pairwise disjoint and lie within
\* [0, nodeHeight], measured from the node's top edge
BandsFit(sorted, nodeHeight) ==
    LET drawn == {k \in DOMAIN sorted : Rendered(sorted[k])}
    IN  /\ \A k \in drawn :
              /\ RGe(Band(sorted, k).top, Num(0))
              /\ RLe(Band(sorted, k).bottom, nodeHeight)
        /\ \A k1, k2 \in drawn :
              k1 # k2 => Disjoint(Band(sorted, k1), Band(sorted, k2))

\* C20: the bands of the flows that share a source stage, and likewise of
\* the flows that share a target stage, each band being
\* [center - width / 2, center + width / 2] with
\* width = max(MIN_FLOW_WIDTH, value * HEIGHT_SCALE), are pairwise
\* non-overlapping and lie within the node's extent [top, top + nodeHeight],
\* whatever the flow values and wherever the markers are vertically.
C20_BandsDisjointWithinNode ==
    \A stageId \in StageIds :
        /\ BandsFit(FlowsFromSameSource(stageId), getNodeHeight(stageId))
        /\ \A fromYRank \in [StageIds -> 1..Cardinality(StageIds)] :
              BandsFit(FlowsToSameTarget(stageId, fromYRank), getNodeHeight(stageId))

\* the height that the data model gives a marker, written from the values:
\* the widths max(MIN_FLOW_WIDTH, value * HEIGHT_SCALE) of the flows that
\* count, and FLOW_SPACING between each two of them
WidthOfValue(v) ==
    IF RLt(RMul(v, Num(8)), Num(20)) THEN Num(20) ELSE RMul(v, Num(8))
RECURSIVE SumOfWidths(_)
SumOfWidths(fl) ==
    IF fl = <<>> THEN Num(0)
    ELSE RAdd(WidthOfValue(Head(fl).value), SumOfWidths(Tail(fl)))
HeightOver(fl) == RAdd(SumOfWidths(fl), Num(8 * (Len(fl) - 1)))
NodeHeightOf(stageId) ==
    LET inc == IncomingFlows(stageId, flows)
        out == OutgoingFlows(stageId, flows)
    IN  IF inc # <<>> THEN HeightOver(inc)
        ELSE IF out # <<>> THEN HeightOver(out)
        ELSE Num(480)

C22_NodeHeightMonotone ==
    lastOp.op = "flowsChange" =>
        \A stageId \in StageIds : RLe(output[stageId], getNodeHeight(stageId))

\* a raise that makes the target marker taller and leaves the source marker,
\* whose height is taken over its own incoming flow, as it was
C22_Witness ==
    /\ lastOp.op = "flowsChange"
    /\ lastOp.flow = 8
    /\ IncomingFlows(3, flows) # <<>>
    /\ output[3] = getNodeHeight(3)
    /\ RLt(output[4], getNodeHeight(4))

\* C23: snapToTicker gives the multiple of 0.1 (the whole tick) nearest to
\* the position, brought into [-10, 110] (ticks -100 .. 1100); the result
\* is always in that range, and snapping the result gives the result again.
C23_SnapToTicker ==
    /\ lastOp.op = "snapToTicker" =>
          /\ output \in CANVAS_MIN_POSITION..CANVAS_MAX_POSITION
          /\ IF RLe(input, Num(CANVAS_MIN_POSITION)) THEN output = CANVAS_MIN_POSITION
             ELSE IF RLe(Num(CANVAS_MAX_POSITION), input) THEN output = CANVAS_MAX_POSITION
             ELSE \A k \in (output - 2)..(output + 2) :
                     RLe(RAbs(RSub(input, Num(output))), RAbs(RSub(input, Num(k))))
    /\ lastOp.op = "snapToTickerAgain" =>
          /\ output \in CANVAS_MIN_POSITION..CANVAS_MAX_POSITION
          /\ Num(output) = input

\* a position halfway between two tickers below 0 has been snapped:
\* Math.round takes -2.5 to -2
C23_Witness ==
    /\ lastOp.op = "snapToTicker"
    /\ input = Frac(-5, 2)
    /\ output = -2

\* C24: getTickerPositions gives one ticker per 0.1 from -10 to 110, both
\* included: 1201 entries with strictly increasing positions, the same on
\* every call, isMajor being true exactly at the whole-number positions,
\* the negative ones too.
C24_TickerPositions ==
    /\ lastOp.op \in {"getTickerPositions", "getTickerPositionsAgain"} =>
          /\ Len(output) = 1201
          /\ output[1].position = Num(-10)
          /\ output[Len(output)].position = Num(110)
          /\ \A k \in 1..(Len(output) - 1) :
                RSub(output[k + 1].position, output[k].position) = Frac(1, 10)
          /\ \A k \in DOMAIN output :
                output[k].isMajor <=> output[k].position[2] = 1
    /\ lastOp.op = "getTickerPositionsAgain" => output = input

\* the second call has returned; -10 and -5 are major, -0.5 is not
C24_Witness ==
    /\ lastOp.op = "getTickerPositionsAgain"
    /\ output[1] = [position |-> Num(-10), isMajor |-> TRUE]
    /\ output[51] = [position |-> Num(-5), isMajor |-> TRUE]
    /\ output[96] = [position |-> Frac(-1, 2), isMajor |-> FALSE]

\* the value of the flow with the given id in the flow array fl
ValueOf(id, fl) == fl[CHOOSE i \in DOMAIN fl : fl[i].id = id].value

\* the other outgoing flows of the source of an edited flow, before the edit
OtherFlows(sourceStageId, id) ==
    SelectSeq(OutgoingFlows(sourceStageId, flows), LAMBDA f : f.id # id)

\* C25: after a manual edit that leaves a positive remainder
\* (incoming - clamped value > 0) to other outgoing flows of positive sum,
\* every other flow of the source has the value
\* remainder * (its value before) / (sum of the others before), so the
\* ratios between the siblings are kept.
C25_SiblingsKeepRatios ==
    [][lastOp'.op = "applyManualEdit" =>
          LET id == lastOp'.flow
              sourceStageId == lastOp'.stage
              others == OtherFlows(sourceStageId, id)
              sumBefore == SumValues(others)
              remaining == RSub(getIncomingFlowValue(sourceStageId, flows),
                                ValueOf(id, flows'))
          IN  (RLt(Num(0), sumBefore) /\ RLt(Num(0), remaining)) =>
                 \A i \in DOMAIN others :
                    ValueOf(others[i].id, flows')
                        = RDiv(RMul(remaining, others[i].value), sumBefore)]_vars

\* C26: a flow made by a branch creation has as branchIndex the number of
\* flows that left its source before it, and it is the last of the flows of
\* its source in the source-side stacking order (by ascending branchIndex),
\* also when siblings were removed by deleteStage or disconnectFlow before.
C26_NewFlowStacksLast ==
    lastOp.op = "branchCreate" =>
        LET sorted == FlowsFromSameSource(lastOp.stage)
        IN  /\ FlowById(lastOp.flow).branchIndex = Len(sorted) - 1
            /\ sorted[Len(sorted)].id = lastOp.flow

\* the flows into a stage as (id, source) pairs
Parents(stageId, fl) ==
    {<<f.id, f.fromStageId>> : f \in Range(IncomingFlows(stageId, fl))}

\* C27: deleteStage(X) takes X alone out of the stages: every other stage,
\* the children of X among them, stays as it was and keeps the parents it
\* had besides X; a child whose only incoming flow came from X is a root
\* with incoming value 100 afterwards; and a deleteStage of a stage without
\* incoming flows, such a child included, changes nothing.
C27_DeleteLeavesChildren ==
    [][/\ Deleted =>
             LET X == lastOp'.stage
             IN  /\ stages' = SelectSeq(stages, LAMBDA s : s.id # X)
                 /\ \A f \in Range(OutgoingFlows(X, flows)) :
                       LET child == f.toStageId
                       IN  child # X =>
                             /\ child \in StageIds'
                             /\ Parents(child, flows')
                                  = {p \in Parents(child, flows) : p[2] # X}
                             /\ Parents(child, flows') = {}
                                  => getIncomingFlowValue(child, flows') = Num(100)
       /\ (lastOp'.op = "deleteStage" /\ IncomingFlows(lastOp'.stage, flows) = <<>>)
             => UNCHANGED <<stages, flows>>]_vars

\* stage 2 of the chain 1 -> 2 -> 3 -> 4 is gone, and the deletion of its
\* former child 3, now a root with its flow to 4, has been refused
C27_Witness ==
    /\ lastOp = Op("deleteStage", 3, 0)
    /\ stages = SelectSeq(ChainStages, LAMBDA s : s.id # 2)
    /\ IncomingFlows(3, flows) = <<>>
    /\ Len(OutgoingFlows(3, flows)) = 1
    /\ getIncomingFlowValue(3, flows) = Num(100)

\* C28: while a stage S is selected for branching, a click on any other
\* stage T leaves the editor idle (selectedStageId null, isCreatingBranch
\* false, no edit form open), and it creates a flow S -> T exactly when T
\* lies to the right of S; a canvas click that creates a stage and a flow
\* leaves the editor idle too.
C28_BranchClickReturnsToIdle ==
    [][(selectedStageId \in StageIds) =>
          LET S == StageById(selectedStageId)
              NewFlowTo(T) ==
                  /\ lastOp'.op = "branchCreate"
                  /\ Len(flows') = Len(flows) + 1
                  /\ flows'[Len(flows')].fromStageId = S.id
                  /\ flows'[Len(flows')].toStageId = T.id
          IN  /\ \A T \in Range(stages) :
                    (T.id # S.id /\ handleStageClick(T)) =>
                        /\ Idle'
                        /\ NewFlowTo(T) <=> T.position > S.position
                        /\ ~NewFlowTo(T) => flows' = flows
              /\ \A clickX \in ClickXs :
                    (handleCanvasClick(clickX) /\ Len(stages') > Len(stages)) =>
                        /\ Idle'
                        /\ NewFlowTo(stages'[Len(stages')])]_vars

\* a click on an existing stage to the right has created a flow to it (the
\* target is not a stage the click made) and nothing is selected; another
\* stage lies to the left of the source
C28_Witness ==
    /\ lastOp.op = "branchCreate"
    /\ flows[Len(flows)].toStageId # stages[Len(stages)].id
    /\ flows[Len(flows)].toStageId \in StageIds
    /\ selectedStageId = 0
    /\ isCreatingBranch = FALSE
    /\ \E st \in Range(stages) :
          st.position < StageById(flows[Len(flows)].fromStageId).position

\* the percentage that the data model gives for a flow: its value as a
\* share of what comes into its source
PercentOf(f) ==
    RMul(RDiv(f.value, getIncomingFlowValue(f.fromStageId, flows)), Num(100))

\* a click on a flow that is not being edited opens the edit form on it
\* with that percentage
EntersFlowEdit ==
    lastOp'.op = "flowClick" =>
        /\ selectedFlowId' = lastOp'.flow
        /\ editingFlow' = <<[FlowById(lastOp'.flow) EXCEPT
                                !.value = PercentOf(FlowById(lastOp'.flow))]>>

\* save, cancel and Escape leave the editor idle
LeavesFlowEdit ==
    (handleFlowUpdate \/ flowModalCancel) => Idle'

\* a save of the percentage of the flow as it is, on a conserving graph,
\* leaves the values where they were
SaveUnchanged ==
    (/\ handleFlowUpdate
     /\ Conserved(stages, flows)
     /\ editingFlow[1].value = PercentOf(FlowById(editingFlow[1].id)))
        => /\ Len(flows') = Len(flows)
           /\ \A i \in DOMAIN flows :
                 /\ flows'[i].id = flows[i].id
                 /\ Near(flows'[i].value, flows[i].value)

\* C29: a click on a flow that is not being edited enters the flow edit
\* with the edit value flow.value / incomingValue(source) * 100; save,
\* cancel and Escape each return to Idle; and a save that leaves the
\* percentage as it is, on a graph that satisfies conservation, leaves every
\* flow value unchanged within 0.01.
C29_FlowEditRoundTrip ==
    [][EntersFlowEdit /\ LeavesFlowEdit /\ SaveUnchanged]_vars

\* C30: Escape, pressed while a stage is selected for branching, cancels
\* the selection: the editor is idle afterwards.
C30_EscapeCancelsSelection ==
    [][\A stage \in Range(stages) :
          (isCreatingBranch /\ handleEscapeKey(stage)) => Idle']_vars


(***************************************************************************)
(* The undo history at its limit: the root and one branch, after enough    *)
(* stage-modal updates to leave HISTORY_LIMIT - 1 snapshots (all but the   *)
(* last taken before the branch was created).  The stage modal and Ctrl+Z  *)
(* are the events; saveToHistory runs on the whole history.                *)
(***************************************************************************)
RootOnly == [stages |-> <<[id |-> 1, position |-> 0]>>, flows |-> <<>>]

BranchStages == <<[id |-> 1, position |-> 0], [id |-> 2, position |-> 10]>>

BranchFlows == <<NewFlow(2, 1, 2, Num(100), 0)>>

LongHistory ==
    [i \in 1..(HISTORY_LIMIT - 1) |->
        IF i < HISTORY_LIMIT - 1 THEN RootOnly
        ELSE JsonCopy(BranchStages, BranchFlows)]

InitHistory ==
    /\ stages = BranchStages
    /\ flows = BranchFlows
    /\ clock = 3
    /\ Idle
    /\ creationsLeft = 0
    /\ edits = 0
    /\ lastOp = NoOp
    /\ historyRef = LongHistory
    /\ historyIndexRef = Len(LongHistory) - 1
    /\ canUndo = TRUE
    /\ changes = <<>>
    /\ undos = 0
    /\ drags = 0
    /\ input = <<>>
    /\ output = <<>>

\* n calls of handleStagesChange / handleFlowsChange on the whole history
RecordedAll(n) ==
    /\ historyRef' = SaveCalls(historyRef, historyIndexRef, n).history
    /\ historyIndexRef' = SaveCalls(historyRef, historyIndexRef, n).index
    /\ canUndo' = IF n = 0 THEN canUndo ELSE historyIndexRef' > 0
    /\ undos' = IF n = 0 THEN undos ELSE 0
    /\ UNCHANGED <<changes, drags, input, output>>

NextHistory ==
    \/ /\ \E stage \in Range(stages) : handleStageClick(stage)
       /\ RecordedAll(IF Created THEN 1 ELSE 0)
    \/ stageModalCancel /\ RecordedAll(0)
    \/ handleStageModalUpdate /\ RecordedAll(1)
    \/ handleUndo /\ UNCHANGED <<drags, input, output>>

SpecHistory == InitHistory /\ [][NextHistory]_vars

\* C31: the undo history never holds more than HISTORY_LIMIT snapshots, the
\* history index lies within 0 .. length - 1, canUndo is true exactly when
\* the index is above 0, and a recorded change keeps of the old history
\* only the snapshots up to the index (the oldest one leaving when the
\* limit is passed), followed by the snapshot of the graph it started from.
HistoryInRange ==
    /\ Len(historyRef) <= HISTORY_LIMIT
    /\ 0 <= historyIndexRef
    /\ historyIndexRef <= Len(historyRef) - 1
    /\ canUndo <=> (historyIndexRef > 0)

RecordsChange == historyRef' # historyRef \/ historyIndexRef' > historyIndexRef

DiscardsBeyondIndex ==
    LET kept == SubSeq(historyRef, 1, historyIndexRef + 1)
        whole == Append(kept, JsonCopy(stages, flows))
        gone == IF Len(whole) > HISTORY_LIMIT THEN 1 ELSE 0
    IN  /\ Len(historyRef') = Len(whole) - gone
        /\ \A i \in 1..Len(historyRef') : historyRef'[i] = whole[i + gone]
        /\ historyIndexRef' = Len(historyRef') - 1

C31_HistoryBounded ==
    /\ []HistoryInRange
    /\ [][RecordsChange => DiscardsBeyondIndex]_vars

\* the limit was passed often enough for every snapshot taken before the
\* branch to leave, then a change was recorded after two undos: the
\* snapshots past the index are gone
C31_Witness ==
    /\ Len(historyRef) = HISTORY_LIMIT - 1
    /\ historyIndexRef = HISTORY_LIMIT - 2
    /\ undos = 0
    /\ canUndo
    /\ \A i \in 1..Len(historyRef) :
          historyRef[i] = JsonCopy(BranchStages, BranchFlows)


\* C32: a non-null selectedStageId names a stage of the current stage
\* array and a non-null editingFlow names a flow of the current flow array,
\* whatever the interleaving of deletion, undo and selection events.
SelectionExists == selectedStageId # 0 => selectedStageId \in StageIds

EditingFlowExists == editingFlow # <<>> => editingFlow[1].id \in FlowIds

C32_SelectionNamesExisting == SelectionExists /\ EditingFlowExists


(***************************************************************************)
(* The operations that change the graph, together: branch creation,        *)
(* linking, manual edit, deletion, disconnection, marker drag and Ctrl+Z,  *)
(* with the clicks that lead to them, on a document that holds the chain   *)
(* 1 -> 2 -> 3.  The history is kept up to MaxWholeHistory snapshots.      *)
(***************************************************************************)
MaxWholeCreations == 1

MaxWholeHistory == 4

\* one mouse movement to the right, far enough to pass the next stage
WholeDragDeltas == {150}

ShortChainFlows == <<NewFlow(2, 1, 2, Num(100), 0), NewFlow(3, 2, 3, Num(100), 0)>>

InitWhole ==
    /\ stages = SqueezedStages
    /\ flows = ShortChainFlows
    /\ clock = 4
    /\ Idle
    /\ creationsLeft = MaxWholeCreations
    /\ edits = 0
    /\ lastOp = NoOp
    /\ historyRef = <<[stages |-> stages, flows |-> flows]>>
    /\ historyIndexRef = 0
    /\ canUndo = FALSE
    /\ changes = <<>>
    /\ undos = 0
    /\ drags = 0
    /\ input = <<>>
    /\ output = <<>>

\* n calls of handleStagesChange / handleFlowsChange made by one handler
RecordedWhole(n) ==
    /\ Len(historyRef) + n <= MaxWholeHistory
    /\ historyRef' = SaveCalls(historyRef, historyIndexRef, n).history
    /\ historyIndexRef' = SaveCalls(historyRef, historyIndexRef, n).index
    /\ canUndo' = IF n = 0 THEN canUndo ELSE historyIndexRef' > 0
    /\ undos' = IF n = 0 THEN undos ELSE 0
    /\ UNCHANGED <<changes, drags, input, output>>

NextWhole ==
    \/ /\ \E stage \in Range(stages) : handleStageClick(stage)
       /\ RecordedWhole(IF Created THEN 1 ELSE 0)
    \/ createBranchClick /\ RecordedWhole(0)
    \/ /\ \E clickX \in ClickXs : handleCanvasClick(clickX)
       /\ RecordedWhole(IF Created THEN 2 ELSE 0)
    \/ (\E flowId \in FlowIds : handleFlowClick(flowId)) /\ RecordedWhole(0)
    \/ (\E percent \in Percents : flowValueChange(percent)) /\ RecordedWhole(0)
    \/ handleFlowUpdate /\ RecordedWhole(1)
    \/ /\ \E stageId \in StageIds : deleteStage(stageId)
       /\ RecordedWhole(IF Deleted THEN 2 ELSE 0)
    \/ /\ \E flowId \in FlowIds : handleDisconnectParent(flowId)
       /\ RecordedWhole(IF Disconnected THEN 1 ELSE 0)
    \/ \E stageId \in StageIds, deltaX \in WholeDragDeltas :
          handleStageDrag(stageId, deltaX)
    \/ handleUndo /\ UNCHANGED <<drags, input, output>>

SpecWhole == InitWhole /\ [][NextWhole]_vars

\* C33: every flow's fromStageId and toStageId name stages of the stage
\* array, in every state reached by branch creation, linking, manual edit,
\* deletion, disconnection, drag and undo.
C33_NoHangingFlows == \A f \in Range(flows) : Rendered(f)


\* the middle stage of a chain was deleted: the flows into it and out of it
\* went with it, and the stage it led to stays without a flow
C33_Witness ==
    /\ lastOp.op = "deleteStage"
    /\ lastOp.stage = 2
    /\ StageIds = {1, 3}
    /\ flows = <<>>
    /\ historyRef[Len(historyRef)].flows = ShortChainFlows


\* C34: the stage array is never empty, and a stage leaves it only while a
\* flow leads into it from another stage that is there.
StagesNonEmpty == Len(stages) >= 1

RemovedStages == StageIds \ {s.id : s \in Range(stages')}

DeletedWithParent ==
    \A gone \in RemovedStages :
        \E f \in Range(flows) :
            /\ f.toStageId = gone
            /\ f.fromStageId \in StageIds \ {gone}

C34_StagesNeverEmpty == []StagesNonEmpty /\ [][DeletedWithParent]_vars

\* the first stage itself was deleted, after a drag to the right and a
\* link into it had given it an incoming flow
C34_Witness ==
    /\ lastOp.op = "deleteStage"
    /\ 1 \notin StageIds
    /\ stages # <<>>


\* C35: a drag changes the position of the dragged stage only, to a tick
\* within [CANVAS_MIN_POSITION, CANVAS_MAX_POSITION]; the flows, the other
\* stages and the undo history stay as they were; and every stage's
\* position is a tick of that range in every state.
PositionsInRange ==
    \A s \in Range(stages) : s.position \in CANVAS_MIN_POSITION..CANVAS_MAX_POSITION

Dragged == drags' = drags + 1

DragMovesOneStage ==
    /\ flows' = flows
    /\ DOMAIN stages' = DOMAIN stages
    /\ \A i \in DOMAIN stages :
          /\ stages'[i].id = stages[i].id
          /\ stages[i].id # lastOp'.stage => stages'[i] = stages[i]
          /\ stages'[i].position \in CANVAS_MIN_POSITION..CANVAS_MAX_POSITION
    /\ historyRef' = historyRef
    /\ historyIndexRef' = historyIndexRef
    /\ canUndo' = canUndo

C35_DragMovesOneStage ==
    /\ []PositionsInRange
    /\ [][Dragged => DragMovesOneStage]_vars

\* stage 3 was dragged 150 px to the right from 2 %, to 3.25 %: it sits on
\* the tick 3.3 %, and stage 2 and the flows are where they were
C35_Witness ==
    /\ lastOp = Op("drag", 3, 0)
    /\ drags = 1
    /\ StageById(3).position = 33
    /\ StageById(2).position = 10
    /\ flows = ForkFlows


(***************************************************************************)
(* The layout of a document in which stages are missing: the stages are    *)
(* any of the four of LayoutStages, the flows 1 -> 2, 1 -> 3, 2 -> 3 and   *)
(* 3 -> 4 are there or not, whatever stages there are.  getNodeHeight and  *)
(* the callback that draws a flow are applied on their own.                *)
(***************************************************************************)
HangingValues == {Num(1), Num(10), Num(20)}

InitHanging ==
    /\ \E present \in SUBSET {1, 2, 3, 4} :
          stages = SelectSeq(LayoutStages, LAMBDA s : s.id \in present)
    /\ \E a, b, c, d \in HangingValues \cup {NoFlow} :
          flows = LayoutFlow(5, 1, 2, a, 0)
                    \o LayoutFlow(6, 1, 3, b, IF a = NoFlow THEN 0 ELSE 1)
                    \o LayoutFlow(7, 2, 3, c, 0) \o LayoutFlow(8, 3, 4, d, 0)
    /\ clock = 9
    /\ Idle
    /\ creationsLeft = 0
    /\ edits = 0
    /\ lastOp = NoOp
    /\ historyRef = <<>>
    /\ historyIndexRef = 0
    /\ changes = <<>>
    /\ undos = 0
    /\ canUndo = FALSE
    /\ drags = 0
    /\ input = <<>>
    /\ output = <<>>

\* getStageY ranks: every stage there is sits at canvasHeight / 2, and the
\* flows of a source that is missing are sorted with fromY = 0
FromYRank == [id \in 1..4 |-> IF id \in StageIds THEN 1 ELSE 0]

\* the callback of flows.map (lines 1145-1231) for one flow: null for a
\* flow with a missing stage, else the widths and offsets of its path
renderFlow(flowId) ==
    LET flow == FlowById(flowId)
        flowsFromSameSource == FlowsFromSameSource(flow.fromStageId)
        currentIndex == CHOOSE k \in DOMAIN flowsFromSameSource :
                            flowsFromSameSource[k].id = flowId
        flowsToSameTarget == FlowsToSameTarget(flow.toStageId, FromYRank)
        targetIndex == CHOOSE k \in DOMAIN flowsToSameTarget :
                           flowsToSameTarget[k].id = flowId
    IN  /\ flowId \in FlowIds
        /\ output' = IF ~Rendered(flow) THEN <<>>
                     ELSE <<[flowWidth |-> FlowWidth(flow),
                             fromNodeHeight |-> getNodeHeight(flow.fromStageId),
                             toNodeHeight |-> getNodeHeight(flow.toStageId),
                             sourceOffset |-> BandOffset(flowsFromSameSource, currentIndex),
                             targetOffset |-> BandOffset(flowsToSameTarget, targetIndex)]>>
        /\ lastOp' = Op("renderFlow", 0, flowId)
        /\ UNCHANGED <<stages, flows, selectedStageId, isCreatingBranch,
                       selectedFlowId, editingFlow, editingStage, clock,
                       creationsLeft, edits, app, drags, input>>

NextHanging ==
    \/ \E stageId \in StageIds : getNodeHeightCall(stageId)
    \/ \E flowId \in FlowIds : renderFlow(flowId)

SpecHanging == InitHanging /\ [][NextHanging]_vars

\* the flows with both stages, and the layout taken over them alone
DrawnFlows == SelectSeq(flows, Rendered)

DrawnHeight(stageId) ==
    LET inc == IncomingFlows(stageId, DrawnFlows)
        out == OutgoingFlows(stageId, DrawnFlows)
    IN  IF inc # <<>> THEN HeightOver(inc)
        ELSE IF out # <<>> THEN HeightOver(out)
        ELSE Num(480)

OffsetOver(fl) == RAdd(RMul(SumValues(fl), Num(8)), Num(8 * Len(fl)))

DrawnSourceOffset(f) ==
    OffsetOver(SelectSeq(DrawnFlows, LAMBDA g : /\ g.fromStageId = f.fromStageId
                                                /\ g.branchIndex < f.branchIndex))

DrawnTargetOffset(f) ==
    OffsetOver(SelectSeq(DrawnFlows, LAMBDA g : /\ g.toStageId = f.toStageId
                                                /\ g.id < f.id))

\* C36: a flow whose source or target stage is missing gets no geometry,
\* and the height of every stage and the stacking offsets of every drawn
\* flow are those of the drawn flows alone.
HangingNotDrawn ==
    (lastOp.op = "renderFlow" /\ ~Rendered(FlowById(lastOp.flow))) => output = <<>>

HangingAddsNoHeight ==
    lastOp.op = "getNodeHeight" => output = DrawnHeight(lastOp.stage)

HangingAddsNoOffset ==
    (lastOp.op = "renderFlow" /\ Rendered(FlowById(lastOp.flow))) =>
        /\ output[1].fromNodeHeight = DrawnHeight(FlowById(lastOp.flow).fromStageId)
        /\ output[1].toNodeHeight = DrawnHeight(FlowById(lastOp.flow).toStageId)
        /\ output[1].sourceOffset = DrawnSourceOffset(FlowById(lastOp.flow))
        /\ output[1].targetOffset = DrawnTargetOffset(FlowById(lastOp.flow))

C36_HangingFlowsLeftOut ==
    HangingNotDrawn /\ HangingAddsNoHeight /\ HangingAddsNoOffset


\* C37: isCreatingBranch is true exactly when selectedStageId is non-null,
\* and selectedFlowId is non-null exactly when editingFlow is non-null, in
\* which case editingFlow.id = selectedFlowId.
BranchFlagsCoupled == isCreatingBranch <=> (selectedStageId # 0)

FlowFlagsCoupled ==
    /\ (selectedFlowId # 0) <=> (editingFlow # <<>>)
    /\ editingFlow # <<>> => editingFlow[1].id = selectedFlowId

C37_SelectionFlagsCoupled == BranchFlagsCoupled /\ FlowFlagsCoupled


\* a flow is being edited that a deleteStage has removed meanwhile: the
\* flow selection and the form still go together, and no stage is selected
C37_Witness ==
    /\ lastOp.op = "deleteStage"
    /\ selectedFlowId # 0
    /\ selectedFlowId \notin FlowIds
    /\ editingFlow # <<>>
    /\ editingFlow[1].id = selectedFlowId
    /\ selectedStageId = 0
    /\ ~isCreatingBranch

====
